---- MODULE Spec2Model ----
(***************************************************************************)
(* Sensemaker backend: the queue-backed task orchestrator.                 *)
(*                                                                         *)
(* The HTTP handlers (Submit, Poll, Delete), the queue consumer and the    *)
(* R2 result store of the worker, with the Cloudflare queue that delivers  *)
(* each task message (batch size 1, max_retries 3, dead-letter queue).     *)
(*                                                                         *)
(* Environment assumptions, stated once:                                   *)
(*  - one DELETE request runs at a time, and no other request is served   *)
(*    between its store calls (a Poll is a single store read);              *)
(*  - R2 get and the delete of the result key succeed; an R2 put may       *)
(*    throw (the consumer has dedicated handling for each put), and so may *)
(*    the delete of the status key (the handler catches it);               *)
(*  - the analysis engine is a black box: each stage returns a value that  *)
(*    is a function of its arguments, or throws any value of Errors;       *)
(*  - generateTaskId (timestamp plus random suffix) never repeats an id;   *)
(*  - the wall clock read by new Date() is abstracted to one instant.      *)
(***************************************************************************)
EXTENDS Integers, Sequences, FiniteSets, TLC

VARIABLES
    queue,    \* SENSEMAKER_QUEUE: the messages ever sent, with the platform's delivery state
    inv,      \* per message: the locals of its current (or last) consumer invocation
    store,    \* SENSEMAKER_RESULTS: key -> stored JSON document, or Absent
    resp,     \* the HTTP response returned by the step just taken (NoResp after a consumer step)
    del,      \* the DELETE request in progress between its store calls, or IdleDel
    written,  \* history: task ids for which a consumer has put a result record
    deleted,  \* history: per task id, whether a DELETE has returned 200 ("no", "live", "settled")
    calc      \* the call of a pure function under study: its input and what it returned

vars == <<queue, inv, store, resp, del, written, deleted, calc>>

----------------------------------------------------------------------------
(* Bounds and program constants *)

\* tasks accepted in Spec (the whole lifecycle of each)
MaxTasks == 1

\* tasks accepted in SubmitSpec (submission and delivery only)
MaxSubmits == 3

\* tasks accepted in ConcurrentSpec, and the task ids that clients poll and delete
MaxConcurrent == 2

\* deliveries of each message in ConcurrentSpec
MaxDeliveries == 1

\* messages of one batch in BatchSpec
MaxBatch == 2

\* the largest count a source tally names
MaxCount == 2

\* the longest comment list normalised
MaxComments == 2

\* the most data lines of a CSV converted as a whole
MaxRows == 2

\* the longest topics string parsed, in characters
MaxTopicChars == 4

MaxRetries == 3

IdPool == <<"t1", "t2", "t3", "t4", "t5">>

----------------------------------------------------------------------------
(* Keys of the result store *)

\* faulty variant: the id does not change from one request to the next
GenerateTaskId_Constant(n) == <<IdPool[1]>>

\* generateTaskId: the n-th id generated (timestamp and random suffix: never repeated)
GenerateTaskId(n) == <<IdPool[n]>>

TaskIds == { GenerateTaskId(n) : n \in 1..MaxConcurrent }

\* faulty variant: every task writes its result under one key
ResultKey_Shared(id) == <<IdPool[1], ".json">>

ResultKey(id) == id \o <<".json">>

StatusKey(id) == id \o <<"-status", ".json">>

\* an id a client can put in the URL that is no task id: "<taskId>-status"
StatusAlias(id) == id \o <<"-status">>

RequestIds == TaskIds \cup { StatusAlias(id) : id \in TaskIds }

AllIds == { GenerateTaskId(n) : n \in DOMAIN IdPool }

Keys ==
    LET ids == AllIds \cup { StatusAlias(id) : id \in AllIds }
    IN  { ResultKey(id) : id \in ids } \cup { StatusKey(id) : id \in ids }

Absent == [absent |-> TRUE]

Now == "ts"

Null == "null"

NoResp == [op |-> "none"]

IdleDel == [pc |-> "idle"]

NoCalc == [fn |-> "none"]

Put(s, key, doc) == [s EXCEPT ![key] = doc]

Remove(s, key) == [s EXCEPT ![key] = Absent]

\* JSON.stringify drops the members that are undefined
Pick(doc, fields) == [f \in (fields \cap DOMAIN doc) |-> doc[f]]

----------------------------------------------------------------------------
(* Vote tallies: the operational form carries getTotalCount (fn), the queue form does not *)

NoVote == [kind |-> "none"]

Tally(fn, a, d, p) == [kind |-> "tally", fn |-> fn, agreeCount |-> a, disagreeCount |-> d, passCount |-> p]

\* the names a source object may give its counts, in the order they are looked up
AgreeAliases == <<"agreeCount", "agrees", "agree">>

DisagreeAliases == <<"disagreeCount", "disagrees", "disagree">>

PassAliases == <<"passCount", "passes", "pass">>

\* v.a1 ?? v.a2 ?? v.a3 ?? 0
Count(v, aliases) ==
    IF aliases[1] \in DOMAIN v THEN v[aliases[1]]
    ELSE IF aliases[2] \in DOMAIN v THEN v[aliases[2]]
    ELSE IF aliases[3] \in DOMAIN v THEN v[aliases[3]]
    ELSE 0

\* faulty variant: the bare names agree, disagree, pass are not looked up
toVoteTally_NoBareAlias(v) ==
    IF v.fn THEN v
    ELSE Tally(TRUE, Count(v, <<"agreeCount", "agrees", "agrees">>),
               Count(v, <<"disagreeCount", "disagrees", "disagrees">>),
               Count(v, <<"passCount", "passes", "passes">>))

toVoteTally(v) ==
    IF v.fn THEN v
    ELSE Tally(TRUE, Count(v, AgreeAliases), Count(v, DisagreeAliases), Count(v, PassAliases))

\* faulty variant: the pass count does not survive the queue form
toVoteTallyForQueue_DropPass(v) ==
    Tally(FALSE, Count(v, AgreeAliases), Count(v, DisagreeAliases), 0)

toVoteTallyForQueue(v) ==
    Tally(FALSE, Count(v, AgreeAliases), Count(v, DisagreeAliases), Count(v, PassAliases))

\* getTotalCount of a tally in its operational form
getTotalCount(t, includePass) ==
    t.agreeCount + t.disagreeCount + (IF includePass THEN t.passCount ELSE 0)

MapGroup(g, F(_)) == [k \in DOMAIN g |-> F(g[k])]

normalizeVoteInfo(vi) ==
    IF vi.kind = "none" THEN vi
    ELSE IF vi.kind = "tally" /\ vi.fn THEN vi
    ELSE IF vi.kind = "group" THEN [vi EXCEPT !.groups = MapGroup(vi.groups, toVoteTally)]
    ELSE toVoteTally(vi)

\* faulty variant: comments without vote information are dropped
normalizeCommentsVoteInfo_DropUnvoted(comments) ==
    SelectSeq([i \in DOMAIN comments |-> [comments[i] EXCEPT !.voteInfo = normalizeVoteInfo(@)]],
              LAMBDA c : c.voteInfo.kind # "none")

normalizeCommentsVoteInfo(comments) ==
    [i \in DOMAIN comments |-> [comments[i] EXCEPT !.voteInfo = normalizeVoteInfo(@)]]

normalizeVoteInfoForQueue(vi) ==
    IF vi.kind = "none" THEN vi
    ELSE IF vi.kind = "tally" /\ vi.fn THEN toVoteTallyForQueue(vi)
    ELSE IF vi.kind = "group" THEN [vi EXCEPT !.groups = MapGroup(vi.groups, toVoteTallyForQueue)]
    ELSE toVoteTallyForQueue(vi)

normalizeCommentsForQueue(comments) ==
    [i \in DOMAIN comments |-> [comments[i] EXCEPT !.voteInfo = normalizeVoteInfoForQueue(@)]]

----------------------------------------------------------------------------
(* Uploaded files: media type, file-name extension and content.  A CSV content is *)
(* its header (the set of column names) and its data lines, each a row object    *)
(* that maps the column names to the cells; a JSON content is named by what its  *)
(* comment array holds.                                                          *)

Comment(id, vi) == [id |-> id, text |-> "text", voteInfo |-> vi]

CommentIds == <<"c1", "c2">>

ParsedOne == <<Comment("c1", NoVote)>>

ParsedTwo ==
    <<Comment("c1", Tally(TRUE, 1, 0, 2)),
      Comment("c2", [kind |-> "group", groups |-> [g1 |-> Tally(FALSE, 2, 1, 0)]])>>

File(type, ext, headers, rows, json) ==
    [type |-> type, ext |-> ext, headers |-> headers, rows |-> rows, json |-> json]

\* n data lines under a header: the i-th comment id, the text "text", 1 elsewhere
Lines(headers, n) ==
    [i \in 1..n |->
        [h \in headers |-> IF h \in {"comment-id", "id"} THEN CommentIds[i]
                           ELSE IF h \in {"comment_text", "text", "comment-body"} THEN "text"
                           ELSE "1"]]

NoFile == File("none", "none", {}, <<>>, "none")

CsvOne == File("text/csv", ".csv", {"comment-id", "comment_text"},
               Lines({"comment-id", "comment_text"}, 1), "none")

\* a CSV named by its media type only
CsvByType == File("text/csv", ".txt", {"id", "text"}, Lines({"id", "text"}, 1), "none")

JsonTwo == File("application/octet-stream", ".json", {}, <<>>, "two")

\* a JSON document whose comment array is empty
JsonEmpty == File("application/json", ".json", {}, <<>>, "empty")

\* a CSV with only a header line
CsvEmpty == File("text/csv", ".csv", {"comment-id", "comment_text"}, <<>>, "none")

\* a CSV without a text column, and one without an id column
CsvNoText == File("text/csv", ".csv", {"comment-id", "agrees", "disagrees"},
                  Lines({"comment-id", "agrees", "disagrees"}, 1), "none")

CsvNoId == File("text/csv", ".csv", {"comment_text", "author-id"},
                Lines({"comment_text", "author-id"}, 1), "none")

\* a pol.is export that lacks the moderated column
CsvBroken == File("text/csv", ".csv", {"comment-id", "comment-body", "agrees", "disagrees"},
                  Lines({"comment-id", "comment-body", "agrees", "disagrees"}, 1), "none")

TxtFile == File("text/plain", ".txt", {"comment-id", "comment_text"},
                Lines({"comment-id", "comment_text"}, 1), "none")

Files == {NoFile, CsvOne, CsvByType, JsonTwo, JsonEmpty, CsvEmpty, CsvNoText, CsvNoId,
          CsvBroken, TxtFile}

IsJSON(file) == file.type = "application/json" \/ file.ext = ".json"

IsCSV(file) == file.type = "text/csv" \/ file.ext = ".csv"

\* readCSVFile: fewer than two lines is an error
readCSVFileThrows(file) == Len(file.rows) < 1

\* faulty variant: a comment-body column alone does not make a pol.is export
detectCSVFormat_NoVariant(headers) ==
    IF {"comment-id", "comment_text", "agrees", "disagrees", "passes"} \subseteq headers
    THEN "complete"
    ELSE IF {"comment-id", "agrees", "disagrees", "comment-body"} \subseteq headers
    THEN "pol.is"
    ELSE "unknown"

detectCSVFormat(headers) ==
    IF {"comment-id", "comment_text", "agrees", "disagrees", "passes"} \subseteq headers
    THEN "complete"
    ELSE IF {"comment-id", "agrees", "disagrees", "comment-body"} \subseteq headers
    THEN "pol.is"
    ELSE IF "comment-body" \in headers THEN "pol.is"
    ELSE "unknown"

\* JavaScript numbers: an integer, a number with a fraction (val is its integer
\* part), or NaN
Num(n) == [nan |-> FALSE, val |-> n, frac |-> FALSE]

NaN == [nan |-> TRUE, val |-> 0, frac |-> FALSE]

\* the cells that begin with an integer, and that integer
IntPrefix ==
    ("0" :> 0) @@ ("1" :> 1) @@ ("2" :> 2) @@ ("3" :> 3) @@ ("-1" :> -1) @@ ("-2" :> -2)
        @@ ("2x" :> 2) @@ ("1.5" :> 1)

\* the cells that are an integer from end to end
IntCells == {"0", "1", "2", "3", "-1", "-2"}

parseInt(cell) == IF cell \in DOMAIN IntPrefix THEN Num(IntPrefix[cell]) ELSE NaN

\* Number(cell || 0)
NumberOrZero(cell) ==
    IF cell = "" THEN Num(0)
    ELSE IF cell \in IntCells THEN Num(IntPrefix[cell])
    ELSE IF cell = "1.5" THEN [nan |-> FALSE, val |-> 1, frac |-> TRUE]
    ELSE NaN

\* x || 0 for a number x that parseInt returned
OrZero(x) == IF x.nan THEN 0 ELSE x.val

\* convertCSV_new: the required columns of a pol.is export
convertCSV_newFails(headers) == ~({"agrees", "disagrees", "moderated"} \subseteq headers)

\* faulty variant: a comment that is not moderated counts no pass
PassesOf_NoPass(moderated) == 0

\* convertCSV_new: the passes of a row, from its moderated cell
PassesOf(moderated) == IF moderated \in {"1", "-1"} THEN 0 ELSE 1

\* convertCSV_new: the votes cell of a row
VotesOf(row) ==
    LET agrees == parseInt(row["agrees"])
        disagrees == parseInt(row["disagrees"])
    IN  IF agrees.nan \/ disagrees.nan THEN "NaN"
        ELSE ToString(agrees.val + disagrees.val + PassesOf(row["moderated"]))

\* convertCSV_new: a row after the renaming of comment-body and with passes and votes
ConvertRow(row) ==
    LET kept == [h \in DOMAIN row \ {"comment-body"} |-> row[h]]
        renamed == IF "comment-body" \in DOMAIN row
                   THEN ("comment_text" :> row["comment-body"]) @@ kept
                   ELSE row
    IN  ("passes" :> ToString(PassesOf(row["moderated"]))) @@ ("votes" :> VotesOf(row))
            @@ renamed

convertCSV_new(rows) == [i \in DOMAIN rows |-> ConvertRow(rows[i])]

\* parseCSVData: the header after the conversion of a pol.is export
parseCSVDataHeaders(headers) ==
    IF detectCSVFormat(headers) = "pol.is"
    THEN headers \cup {"votes", "passes", "comment_text"}
    ELSE headers

\* parseCSVData: the rows after the conversion of a pol.is export
parseCSVDataRows(headers, rows) ==
    IF detectCSVFormat(headers) = "pol.is" THEN convertCSV_new(rows) ELSE rows

HasIdColumn(headers) == "comment-id" \in headers \/ "id" \in headers

HasTextColumn(headers) == "comment_text" \in headers \/ "text" \in headers

\* the id and the text column (the first in header order when a header has both
\* names; the headers here have at most one of each)
IdColumn(headers) == IF "comment-id" \in headers THEN "comment-id" ELSE "id"

TextColumn(headers) == IF "comment_text" \in headers THEN "comment_text" ELSE "text"

\* the columns of per-group counts: <group>-agree-count, -disagree-count, -pass-count
CsvGroups == {"g1", "g2"}

GroupColumn(group, kind) == group \o "-" \o kind \o "-count"

GroupColumns(kind) == { GroupColumn(g, kind) : g \in CsvGroups }

\* col.split('-')[0] of the vote columns
GroupNamesOf(headers) ==
    { g \in CsvGroups : \E kind \in {"agree", "disagree", "pass"} : GroupColumn(g, kind) \in headers }

hasGroupInfo(headers) == headers \cap GroupColumns("agree") # {}

hasSimpleVotes(headers) == headers \cap {"agrees", "disagrees", "passes"} # {}

\* the tally of a row with the columns agrees and disagrees
SimpleTally(headers, row) ==
    Tally(TRUE, OrZero(parseInt(row["agrees"])), OrZero(parseInt(row["disagrees"])),
          IF "passes" \in headers THEN OrZero(parseInt(row["passes"])) ELSE 0)

\* the tally of one group of a row
GroupTally(headers, row, g) ==
    Tally(TRUE, OrZero(parseInt(row[GroupColumn(g, "agree")])),
          OrZero(parseInt(row[GroupColumn(g, "disagree")])),
          IF GroupColumn(g, "pass") \in headers
          THEN OrZero(parseInt(row[GroupColumn(g, "pass")])) ELSE 0)

\* the vote information convertToComments gives the comment of a row
CsvVoteInfo(headers, row) ==
    IF hasSimpleVotes(headers)
    THEN IF {"agrees", "disagrees"} \subseteq headers THEN SimpleTally(headers, row) ELSE NoVote
    ELSE IF hasGroupInfo(headers)
    THEN LET groups == { g \in GroupNamesOf(headers) :
                            /\ GroupColumn(g, "agree") \in headers
                            /\ GroupColumn(g, "disagree") \in headers }
         IN  IF groups = {} THEN NoVote
             ELSE [kind |-> "group", groups |-> [g \in groups |-> GroupTally(headers, row, g)]]
    ELSE NoVote

\* faulty variant: a row without an id is left out
convertToComments_SkipNoId(headers, rows) ==
    LET all == [i \in DOMAIN rows |->
                   [id |-> rows[i][IdColumn(headers)], text |-> rows[i][TextColumn(headers)],
                    voteInfo |-> CsvVoteInfo(headers, rows[i])]]
    IN  SelectSeq(all, LAMBDA c : c.id # "")

\* one comment per row; i counts from 0 in the code, from 1 here
convertToComments(headers, rows) ==
    [i \in DOMAIN rows |->
        [id |-> IF rows[i][IdColumn(headers)] # "" THEN rows[i][IdColumn(headers)]
                ELSE "comment-" \o ToString(i - 1),
         text |-> rows[i][TextColumn(headers)],
         voteInfo |-> CsvVoteInfo(headers, rows[i])]]

\* the message of the Error parseCSVFile throws, "" when it returns
ParseCSVError(file) ==
    IF readCSVFileThrows(file)
    THEN "CSV file must have at least a header row and one data row"
    ELSE IF detectCSVFormat(file.headers) = "pol.is" /\ convertCSV_newFails(file.headers)
    THEN "Failed to convert pol.is format"
    ELSE IF ~HasIdColumn(parseCSVDataHeaders(file.headers))
            \/ ~HasTextColumn(parseCSVDataHeaders(file.headers))
    THEN "CSV must contain comment-id (or id) and comment_text (or text) columns"
    ELSE ""

parseCSVFile(file) ==
    convertToComments(parseCSVDataHeaders(file.headers),
                      parseCSVDataRows(file.headers, file.rows))

\* parseJSONFile: a top-level array of comments or an object with a comments array
ParseJSONError(file) == IF file.json \notin {"two", "empty"} THEN "Invalid JSON" ELSE ""

parseJSONFile(file) == IF file.json = "two" THEN ParsedTwo ELSE <<>>

\* the parser the handler calls for the file
Parser(file) == IF IsJSON(file) THEN "parseJSONFile" ELSE "parseCSVFile"

ParseError(file) == IF IsJSON(file) THEN ParseJSONError(file) ELSE ParseCSVError(file)

ParseThrows(file) == ParseError(file) # ""

ParseFile(file) == IF IsJSON(file) THEN parseJSONFile(file) ELSE parseCSVFile(file)

----------------------------------------------------------------------------
(* POST /api/sensemake *)

QueryKeys == {"", "qk"}

QueryModels == {"", "qm"}

\* OPENROUTER_API_KEY of the environment: not set, or set
EnvKeys == {"", "ek"}

EnvModel == "envmodel"

Contexts == {""}

Langs == {"en"}

HttpResp(op, code, body) == [op |-> op, code |-> code, body |-> body]

\* faulty variant: the model of the query is taken whether or not the query has a key
ResolveModel_QueryFirst(queryKey, queryModel) ==
    IF queryModel # "" THEN queryModel ELSE EnvModel

\* the model of a task: that of the query only when the query also carries the key
ResolveModel(queryKey, queryModel) ==
    IF queryKey # "" /\ queryModel # "" THEN queryModel ELSE EnvModel

\* the response of Submit, with the request it answers and the calls the handler made
\* on the way (request and calls are history, not part of the HTTP response)
SubmitResp(code, body, request, calls) ==
    HttpResp("submit", code, body) @@ [request |-> request, calls |-> calls]

SensemakeTask(taskId, comments, key, model, ctx, lang) ==
    [taskId |-> taskId, comments |-> comments, openRouterApiKey |-> key,
     openRouterModel |-> model, additionalContext |-> ctx, outputLang |-> lang,
     createdAt |-> Now]

Message(task) == [body |-> task, state |-> "pending", attempts |-> 0]

IdleInv ==
    [pc |-> "idle", err |-> [kind |-> "none", message |-> ""], log |-> <<>>, stored |-> "none", mark |-> "none"]

QueueSend(q, task) == Append(q, Message(task))

Accepted(taskId, comments, model, request, calls) ==
    SubmitResp(202,
        [success |-> TRUE, taskId |-> taskId, message |-> "Task queued successfully",
         commentsCount |-> Len(comments), model |-> model, status |-> "queued",
         pollingUrl |-> <<"/api/sensemake/result/">> \o taskId],
        request, calls)

Rejected(code, error, message, request, calls) ==
    SubmitResp(code, [error |-> error, message |-> message], request, calls)

\* faulty variant: the handler records a queued status before it looks at the request
handleSensemakeRequest_StatusQueued(queryKey, queryModel, envKey, ctxParam, lang, file, sendOk, limit) ==
    /\ del = IdleDel
    /\ Len(queue) < limit
    /\ store' = Put(store, StatusKey(GenerateTaskId(Len(queue) + 1)),
                    [taskId |-> GenerateTaskId(Len(queue) + 1), status |-> "queued"])
    /\ resp' = Rejected(400, "Missing File", "File upload is required",
                        [apiKey |-> queryKey, file |-> file, queryKey |-> queryKey,
                         queryModel |-> queryModel], <<>>)
    /\ UNCHANGED <<queue, inv, del, written, deleted, calc>>

\* faulty variant: the file is parsed before the request is validated
handleSensemakeRequest_ParseFirst(queryKey, queryModel, envKey, ctxParam, lang, file, sendOk, limit) ==
    LET openRouterApiKey == IF queryKey # "" THEN queryKey ELSE envKey
        request == [apiKey |-> openRouterApiKey, file |-> file, queryKey |-> queryKey,
                    queryModel |-> queryModel]
    IN  /\ del = IdleDel
        /\ Len(queue) < limit
        /\ resp' = IF file # NoFile /\ ParseThrows(file)
                   THEN Rejected(500, "Request Error", ParseError(file), request, <<Parser(file)>>)
                   ELSE Rejected(400, "Missing API Key",
                                 "OPENROUTER_API_KEY parameter is required", request, <<>>)
        /\ UNCHANGED <<queue, inv, store, del, written, deleted, calc>>

handleSensemakeRequest(queryKey, queryModel, envKey, ctxParam, lang, file, sendOk, limit) ==
    LET openRouterApiKey == IF queryKey # "" THEN queryKey ELSE envKey
        openRouterModel == ResolveModel(queryKey, queryModel)
        additionalContext == IF ctxParam # "" THEN ctxParam ELSE Null
        comments == normalizeCommentsForQueue(ParseFile(file))
        taskId == GenerateTaskId(Len(queue) + 1)
        task == SensemakeTask(taskId, comments, openRouterApiKey, openRouterModel,
                              additionalContext, lang)
        request == [apiKey |-> openRouterApiKey, file |-> file, queryKey |-> queryKey,
                    queryModel |-> queryModel]
        reject(code, error, message, calls) ==
            /\ resp' = Rejected(code, error, message, request, calls)
            /\ UNCHANGED <<queue, inv, calc>>
    IN  /\ del = IdleDel
        /\ Len(queue) < limit
        /\ IF openRouterApiKey = ""
           THEN reject(400, "Missing API Key", "OPENROUTER_API_KEY parameter is required", <<>>)
           ELSE IF file = NoFile
           THEN reject(400, "Missing File", "File upload is required", <<>>)
           ELSE IF ~IsJSON(file) /\ ~IsCSV(file)
           THEN reject(400, "Unsupported File Type", "Only JSON and CSV files are supported", <<>>)
           ELSE IF ParseThrows(file)
           THEN reject(500, "Request Error", ParseError(file), <<Parser(file)>>)
           ELSE IF Len(ParseFile(file)) = 0
           THEN reject(400, "No Valid Comments",
                       "No valid comments found in the uploaded file", <<Parser(file)>>)
           ELSE IF ~sendOk
           THEN reject(500, "Request Error", "Queue send failed", <<Parser(file), "send">>)
           ELSE /\ queue' = QueueSend(queue, task)
                /\ inv' = Append(inv, IdleInv)
                /\ resp' = Accepted(taskId, comments, openRouterModel, request,
                                    <<Parser(file), "send">>)
        /\ UNCHANGED <<store, del, written, deleted, calc>>

Submit(limit) ==
    \E queryKey \in QueryKeys, queryModel \in QueryModels, envKey \in EnvKeys,
       ctxParam \in Contexts, lang \in Langs, file \in Files, sendOk \in BOOLEAN :
        handleSensemakeRequest(queryKey, queryModel, envKey, ctxParam, lang, file, sendOk, limit)

----------------------------------------------------------------------------
(* GET /api/sensemake/result/{id} *)

\* faulty variant: with no result record, the status record is reported
PollResponse_StatusFallback(s, id) ==
    IF s[ResultKey(id)] = Absent /\ s[StatusKey(id)] # Absent
    THEN HttpResp("poll", 200, [taskId |-> id, status |-> s[StatusKey(id)].status])
    ELSE HttpResp("poll", 404,
             [error |-> "Task Not Found", taskId |-> id, status |-> "not_found"])

PollResponse(s, id) ==
    LET object == s[ResultKey(id)]
    IN  IF object = Absent
        THEN HttpResp("poll", 404,
                 [error |-> "Task Not Found", taskId |-> id, status |-> "not_found"])
        ELSE IF object.status = "failed"
        THEN HttpResp("poll", 500,
                 [taskId |-> id, status |-> "failed"] @@ Pick(object, {"error", "failedAt"}))
        ELSE HttpResp("poll", 200,
                 [success |-> TRUE, taskId |-> id, status |-> "completed"]
                 @@ Pick(object, {"completedAt", "model", "commentsProcessed",
                                  "additionalContext", "outputLanguage", "summary"}))

\* faulty variant: a result that has been read is removed from the store
handleGetResultRequest_ReadOnce(id) ==
    /\ del = IdleDel
    /\ resp' = PollResponse(store, id)
    /\ store' = Remove(store, ResultKey(id))
    /\ UNCHANGED <<queue, inv, del, written, deleted, calc>>

\* faulty variant: a status record that says processing hides the result record
handleGetResultRequest_StatusFirst(id) ==
    /\ del = IdleDel
    /\ resp' = IF store[StatusKey(id)] # Absent /\ store[StatusKey(id)].status = "processing"
               THEN HttpResp("poll", 404,
                        [error |-> "Task Not Found", taskId |-> id, status |-> "not_found"])
               ELSE PollResponse(store, id)
    /\ UNCHANGED <<queue, inv, store, del, written, deleted, calc>>

handleGetResultRequest(id) ==
    /\ del = IdleDel
    /\ resp' = PollResponse(store, id)
    /\ UNCHANGED <<queue, inv, store, del, written, deleted, calc>>

Poll == \E id \in RequestIds : handleGetResultRequest(id)

----------------------------------------------------------------------------
(* DELETE /api/sensemake/delete/{id}: get, delete the result, delete the status *)

Settled(id) ==
    \A i \in DOMAIN queue :
        queue[i].body.taskId = id => queue[i].state \in {"acked", "dead"}

\* faulty variant: a DELETE that finds no result record clears the status record
DeleteGet_ClearStatus(id) ==
    /\ del = IdleDel
    /\ IF store[ResultKey(id)] = Absent
       THEN /\ resp' = HttpResp("delete", 404,
                           [error |-> "Task Not Found", taskId |-> id, status |-> "not_found"])
            /\ del' = del
            /\ store' = Remove(store, StatusKey(id))
       ELSE /\ resp' = NoResp
            /\ del' = [pc |-> "delete", id |-> id, settled |-> FALSE]
            /\ store' = store
    /\ UNCHANGED <<queue, inv, written, deleted, calc>>

DeleteGet(id) ==
    /\ del = IdleDel
    /\ IF store[ResultKey(id)] = Absent
       THEN /\ resp' = HttpResp("delete", 404,
                           [error |-> "Task Not Found", taskId |-> id, status |-> "not_found"])
            /\ del' = del
       ELSE /\ resp' = NoResp
            /\ del' = [pc |-> "delete", id |-> id, settled |-> FALSE]
    /\ UNCHANGED <<queue, inv, store, written, deleted, calc>>

\* faulty variant: the delete names the status key
DeleteResult_StatusKey ==
    /\ del.pc = "delete"
    /\ store' = Remove(store, StatusKey(del.id))
    /\ del' = [del EXCEPT !.pc = "deleteStatus", !.settled = Settled(del.id)]
    /\ resp' = NoResp
    /\ UNCHANGED <<queue, inv, written, deleted, calc>>

DeleteResult ==
    /\ del.pc = "delete"
    /\ store' = Remove(store, ResultKey(del.id))
    /\ del' = [del EXCEPT !.pc = "deleteStatus", !.settled = Settled(del.id)]
    /\ resp' = NoResp
    /\ UNCHANGED <<queue, inv, written, deleted, calc>>

\* faulty variant: the status record is left in the store
DeleteStatus_KeepStatus(ok) ==
    /\ del.pc = "deleteStatus"
    /\ store' = store
    /\ resp' = HttpResp("delete", 200, [success |-> TRUE, taskId |-> del.id])
    /\ deleted' = IF del.id \in TaskIds
                  THEN [deleted EXCEPT ![del.id] = IF del.settled THEN "settled" ELSE "live"]
                  ELSE deleted
    /\ del' = IdleDel
    /\ UNCHANGED <<queue, inv, written, calc>>

DeleteStatus(ok) ==
    /\ del.pc = "deleteStatus"
    /\ store' = IF ok THEN Remove(store, StatusKey(del.id)) ELSE store
    /\ resp' = HttpResp("delete", 200, [success |-> TRUE, taskId |-> del.id])
    /\ deleted' = IF del.id \in TaskIds
                  THEN [deleted EXCEPT ![del.id] = IF del.settled THEN "settled" ELSE "live"]
                  ELSE deleted
    /\ del' = IdleDel
    /\ UNCHANGED <<queue, inv, written, calc>>

handleDeleteTaskRequest ==
    \/ \E id \in RequestIds : DeleteGet(id)
    \/ DeleteResult
    \/ \E ok \in BOOLEAN : DeleteStatus(ok)
----------------------------------------------------------------------------
(* The analysis engine (sensemaking-tools), a black box *)

NoError == [kind |-> "none", message |-> ""]

JsError(message) == [kind |-> "Error", message |-> message]

\* what a stage may throw: an Error with a message, an Error with an empty message,
\* a value that is no Error
Errors == {JsError("Empty response"), JsError(""), [kind |-> "value", message |-> ""]}

StorageError == JsError("R2 put failed")

learnTopics(comments) == <<[name |-> "topic", learnedFrom |-> Len(comments)]>>

categorizeComments(comments, topics) ==
    [i \in DOMAIN comments |-> [id |-> comments[i].id, topics |-> topics]]

summarize(categorizedComments, topics) ==
    <<[type |-> "Overview", comments |-> Len(categorizedComments), topics |-> Len(topics)],
      [type |-> "TopicSummary", topics |-> topics]>>

\* the predicate (sc) => sc.type === t is given by the set of the types it excludes
withoutContents(summary, excludedTypes) ==
    SelectSeq(summary, LAMBDA sc : sc.type \notin excludedTypes)

getText(summary, format) == [format |-> format, blocks |-> summary]

----------------------------------------------------------------------------
(* The documents of the store *)

StatusData(taskId, status, attempt) ==
    [taskId |-> taskId, status |-> status, lastUpdated |-> Now, attempt |-> attempt,
     progress |-> "unknown"]

\* faulty variant: the result record keeps the key the task ran with
ResultData_WithKey(task, comments, markdownContent) ==
    [taskId |-> task.taskId, status |-> "completed", completedAt |-> Now,
     model |-> task.openRouterModel, commentsProcessed |-> Len(comments),
     additionalContext |-> task.additionalContext, outputLanguage |-> task.outputLang,
     summary |-> markdownContent, apiKey |-> task.openRouterApiKey]

ResultData(task, comments, markdownContent) ==
    [taskId |-> task.taskId, status |-> "completed", completedAt |-> Now,
     model |-> task.openRouterModel, commentsProcessed |-> Len(comments),
     additionalContext |-> task.additionalContext, outputLanguage |-> task.outputLang,
     summary |-> markdownContent]

\* faulty variant: the message of the thrown Error is not looked at
ErrorMessage_Generic(error) == "Unknown error"

ErrorMessage(error) == IF error.kind = "Error" THEN error.message ELSE "Unknown error"

\* faulty variant: the record of a failure carries a status that Poll does not know
ErrorData_StatusError(taskId, error) ==
    [taskId |-> taskId, status |-> "error", failedAt |-> Now, error |-> ErrorMessage(error)]

ErrorData(taskId, error) ==
    [taskId |-> taskId, status |-> "failed", failedAt |-> Now, error |-> ErrorMessage(error)]

----------------------------------------------------------------------------
(* The queue platform: delivery, retry budget, dead-letter queue *)

\* faulty variant: no retry budget
AfterFailure_NoBudget(attempts) == "pending"

\* where a message that was not acknowledged goes after its delivery
AfterFailure(attempts) == IF attempts <= MaxRetries THEN "pending" ELSE "dead"

Deliver(i) ==
    /\ queue[i].state = "pending"
    /\ queue' = [queue EXCEPT ![i].state = "inflight", ![i].attempts = @ + 1]
    /\ inv' = [inv EXCEPT ![i] = [IdleInv EXCEPT !.pc = "status"]]
    /\ resp' = NoResp
    /\ UNCHANGED <<store, del, written, deleted, calc>>

\* the platform ends an invocation that is still running; the message was not acknowledged
Terminate(i) ==
    /\ queue[i].state = "inflight"
    /\ queue' = [queue EXCEPT ![i].state = AfterFailure(queue[i].attempts)]
    /\ inv' = [inv EXCEPT ![i].pc = "killed"]
    /\ resp' = NoResp
    /\ UNCHANGED <<store, del, written, deleted, calc>>

----------------------------------------------------------------------------
(* The consumer: queue() and processSensemakeTask(), one step per await *)

Task(i) == queue[i].body

Comments(i) == normalizeCommentsVoteInfo(Task(i).comments)

At(i, pc) == queue[i].state = "inflight" /\ inv[i].pc = pc

Topics(i) == inv[i].log[1].out

CategorizedComments(i) == inv[i].log[2].out

Summary(i) == inv[i].log[3].out

\* faulty variant: the status document is put under the result key
updateTaskStatus_ResultKey(s, taskId, status, attempt, ok) ==
    IF ok THEN Put(s, ResultKey(taskId), StatusData(taskId, status, attempt)) ELSE s

\* updateTaskStatus: the put may throw, which is logged and swallowed
updateTaskStatus(s, taskId, status, attempt, ok) ==
    IF ok THEN Put(s, StatusKey(taskId), StatusData(taskId, status, attempt)) ELSE s

Goto(i, pc) == inv' = [inv EXCEPT ![i].pc = pc]

Throw(i, error) == inv' = [inv EXCEPT ![i].pc = "putFailed", ![i].err = error]

Return(i, call, pc) == inv' = [inv EXCEPT ![i].pc = pc, ![i].log = Append(@, call)]

\* faulty variant: a stage that threw restarts the pipeline inside the same invocation
ThrowIn_Restart(i, call, error) ==
    inv' = [inv EXCEPT ![i].pc = "learnTopics", ![i].log = <<>>]

\* the stage threw: it returned nothing, and control is in the catch block
ThrowIn(i, call, error) ==
    inv' = [inv EXCEPT ![i].pc = "putFailed", ![i].err = error,
                       ![i].log = Append(@, [call EXCEPT !.out = <<>>, !.error = error])]

\* faulty variant: a redelivery that finds a completed result record skips the pipeline
StatusProcessing_SkipIfCompleted(i, ok) ==
    /\ At(i, "status")
    /\ store' = updateTaskStatus(store, Task(i).taskId, "processing", 1, ok)
    /\ IF /\ store[ResultKey(Task(i).taskId)] # Absent
          /\ store[ResultKey(Task(i).taskId)].status = "completed"
       THEN inv' = [inv EXCEPT ![i].pc = "ack", ![i].stored = "completed"]
       ELSE Goto(i, "learnTopics")
    /\ resp' = NoResp
    /\ UNCHANGED <<queue, del, written, deleted, calc>>

\* faulty variant: a failure of the status put is thrown on to the catch block of queue()
StatusProcessing_Rethrow(i, ok) ==
    /\ At(i, "status")
    /\ store' = updateTaskStatus(store, Task(i).taskId, "processing", 1, ok)
    /\ IF ok THEN Goto(i, "learnTopics") ELSE Goto(i, "statusFailed")
    /\ resp' = NoResp
    /\ UNCHANGED <<queue, del, written, deleted, calc>>

StatusProcessing(i, ok) ==
    /\ At(i, "status")
    /\ store' = updateTaskStatus(store, Task(i).taskId, "processing", 1, ok)
    /\ Goto(i, "learnTopics")
    /\ resp' = NoResp
    /\ UNCHANGED <<queue, del, written, deleted, calc>>

LearnCall(i) ==
    [stage |-> "learnTopics", comments |-> Comments(i), topics |-> <<>>,
     out |-> learnTopics(Comments(i)), error |-> NoError]

\* faulty variant: the topics argument is left out
CategorizeCall_NoTopics(i) ==
    [stage |-> "categorizeComments", comments |-> Comments(i), topics |-> <<>>,
     out |-> categorizeComments(Comments(i), <<>>), error |-> NoError]

CategorizeCall(i) ==
    [stage |-> "categorizeComments", comments |-> Comments(i), topics |-> Topics(i),
     out |-> categorizeComments(Comments(i), Topics(i)), error |-> NoError]

SummarizeCall(i) ==
    [stage |-> "summarize", comments |-> CategorizedComments(i), topics |-> Topics(i),
     out |-> summarize(CategorizedComments(i), Topics(i)), error |-> NoError]

Stage(i, pc, call, next, outcome) ==
    /\ At(i, pc)
    /\ IF outcome = NoError THEN Return(i, call, next) ELSE ThrowIn(i, call, outcome)
    /\ resp' = NoResp
    /\ UNCHANGED <<queue, store, del, written, deleted, calc>>

LearnTopics(i, outcome) == Stage(i, "learnTopics", LearnCall(i), "categorizeComments", outcome)

CategorizeComments(i, outcome) == Stage(i, "categorizeComments", CategorizeCall(i), "summarize", outcome)

Summarize(i, outcome) == Stage(i, "summarize", SummarizeCall(i), "put", outcome)

MarkdownContent(i) ==
    getText(withoutContents(Summary(i), {"TopicSummary"}), "MARKDOWN")

\* faulty variant: a failed put of the result is logged and swallowed, like a status put
PutResult_Swallow(i, ok) ==
    /\ At(i, "put")
    /\ IF ok
       THEN /\ store' = Put(store, ResultKey(Task(i).taskId),
                            ResultData(Task(i), Comments(i), MarkdownContent(i)))
            /\ inv' = [inv EXCEPT ![i].pc = "ack", ![i].stored = "completed"]
            /\ written' = written \cup {Task(i).taskId}
       ELSE /\ Goto(i, "ack")
            /\ UNCHANGED <<store, written, calc>>
    /\ resp' = NoResp
    /\ UNCHANGED <<queue, del, deleted, calc>>

PutResult(i, ok) ==
    /\ At(i, "put")
    /\ IF ok
       THEN /\ store' = Put(store, ResultKey(Task(i).taskId),
                            ResultData(Task(i), Comments(i), MarkdownContent(i)))
            /\ inv' = [inv EXCEPT ![i].pc = "ack", ![i].stored = "completed"]
            /\ written' = written \cup {Task(i).taskId}
       ELSE /\ Throw(i, StorageError)
            /\ UNCHANGED <<store, written, calc>>
    /\ resp' = NoResp
    /\ UNCHANGED <<queue, del, deleted, calc>>

\* faulty variant: a failure of the put replaces the error being propagated
PutFailed_Mask(i, ok) ==
    /\ At(i, "putFailed")
    /\ IF ok
       THEN /\ store' = Put(store, ResultKey(Task(i).taskId),
                            ErrorData(Task(i).taskId, inv[i].err))
            /\ inv' = [inv EXCEPT ![i].pc = "statusFailed", ![i].stored = "failed"]
            /\ written' = written \cup {Task(i).taskId}
       ELSE /\ inv' = [inv EXCEPT ![i].pc = "statusFailed", ![i].err = StorageError]
            /\ UNCHANGED <<store, written, calc>>
    /\ resp' = NoResp
    /\ UNCHANGED <<queue, del, deleted, calc>>

PutFailed(i, ok) ==
    /\ At(i, "putFailed")
    /\ IF ok
       THEN /\ store' = Put(store, ResultKey(Task(i).taskId),
                            ErrorData(Task(i).taskId, inv[i].err))
            /\ inv' = [inv EXCEPT ![i].pc = "statusFailed", ![i].stored = "failed"]
            /\ written' = written \cup {Task(i).taskId}
       ELSE /\ Goto(i, "statusFailed")
            /\ UNCHANGED <<store, written, calc>>
    /\ resp' = NoResp
    /\ UNCHANGED <<queue, del, deleted, calc>>

\* faulty variant: the handler records the completion in the status record
Ack_StatusCompleted(i) ==
    /\ At(i, "ack")
    /\ inv' = [inv EXCEPT ![i].pc = "done", ![i].mark = "ack"]
    /\ queue' = [queue EXCEPT ![i].state = "acked"]
    /\ store' = updateTaskStatus(store, Task(i).taskId, "completed", 1, TRUE)
    /\ resp' = NoResp
    /\ UNCHANGED <<del, written, deleted, calc>>

Ack(i) ==
    /\ At(i, "ack")
    /\ inv' = [inv EXCEPT ![i].pc = "done", ![i].mark = "ack"]
    /\ queue' = [queue EXCEPT ![i].state = "acked"]
    /\ resp' = NoResp
    /\ UNCHANGED <<store, del, written, deleted, calc>>

StatusFailed(i, ok) ==
    /\ At(i, "statusFailed")
    /\ store' = updateTaskStatus(store, Task(i).taskId, "failed", 1, ok)
    /\ Goto(i, "retry")
    /\ resp' = NoResp
    /\ UNCHANGED <<queue, del, written, deleted, calc>>

\* faulty variant: one try block around the whole loop, so that the first failure ends
\* the invocation and the messages after it in the batch are neither acknowledged
\* nor retried by the handler
Retry_AbortBatch(i) ==
    /\ At(i, "retry")
    /\ inv' = [j \in DOMAIN inv |->
                  IF j = i THEN [inv[j] EXCEPT !.pc = "done", !.mark = "retry"]
                  ELSE IF queue[j].state = "inflight" THEN [inv[j] EXCEPT !.pc = "skipped"]
                  ELSE inv[j]]
    /\ queue' = [j \in DOMAIN queue |->
                    IF queue[j].state = "inflight"
                    THEN [queue[j] EXCEPT !.state = AfterFailure(queue[j].attempts)]
                    ELSE queue[j]]
    /\ resp' = NoResp
    /\ UNCHANGED <<store, del, written, deleted, calc>>

Retry(i) ==
    /\ At(i, "retry")
    /\ inv' = [inv EXCEPT ![i].pc = "done", ![i].mark = "retry"]
    /\ queue' = [queue EXCEPT ![i].state = AfterFailure(queue[i].attempts)]
    /\ resp' = NoResp
    /\ UNCHANGED <<store, del, written, deleted, calc>>

Outcomes == {NoError} \cup Errors

Consume(i) ==
    \/ \E ok \in BOOLEAN : StatusProcessing(i, ok)
    \/ \E outcome \in Outcomes : LearnTopics(i, outcome)
    \/ \E outcome \in Outcomes : CategorizeComments(i, outcome)
    \/ \E outcome \in Outcomes : Summarize(i, outcome)
    \/ \E ok \in BOOLEAN : PutResult(i, ok)
    \/ \E ok \in BOOLEAN : PutFailed(i, ok)
    \/ Ack(i)
    \/ \E ok \in BOOLEAN : StatusFailed(i, ok)
    \/ Retry(i)

----------------------------------------------------------------------------
(* The system *)

\* the worker after deployment: nothing queued, nothing stored
Deployed ==
    /\ queue = <<>>
    /\ inv = <<>>
    /\ store = [k \in Keys |-> Absent]
    /\ resp = NoResp
    /\ del = IdleDel
    /\ written = {}
    /\ deleted = [id \in TaskIds |-> "no"]

Init ==
    /\ Deployed
    /\ calc = NoCalc

\* Submit in a deployment whose environment sets no API key, by clients that name
\* the model in the query
SubmitWithQueryKey(limit) ==
    /\ Submit(limit)
    /\ resp'.request.apiKey \notin EnvKeys \ {""}
    /\ resp'.request.queryModel # ""

Next ==
    \/ SubmitWithQueryKey(MaxTasks)
    \/ Poll
    \/ handleDeleteTaskRequest
    \/ \E i \in DOMAIN queue : Deliver(i)
    \/ \E i \in DOMAIN queue : Consume(i)
    \/ \E i \in DOMAIN queue : Terminate(i)

Spec == Init /\ [][Next]_vars

\* submission and the queue platform alone: several tasks, none consumed
SubmitNext ==
    \/ SubmitWithQueryKey(MaxSubmits)
    \/ \E i \in DOMAIN queue : Deliver(i)
    \/ \E i \in DOMAIN queue : Terminate(i)

SubmitSpec == Init /\ [][SubmitNext]_vars

\* several tasks consumed concurrently: each message is delivered MaxDeliveries times,
\* every request names its key and its model in the query, every accepted upload is
\* the same file, and the one error a stage throws is the empty response
ConcurrentDeliver(i) == queue[i].attempts < MaxDeliveries /\ Deliver(i)

ConcurrentSubmit ==
    /\ Submit(MaxConcurrent)
    /\ resp'.request.queryKey # "" /\ resp'.request.queryModel # ""
    /\ resp'.code = 202 => resp'.request.file = JsonTwo

ConcurrentConsume(i) ==
    /\ Consume(i)
    /\ inv'[i].err \in {NoError, JsError("Empty response"), StorageError}

ConcurrentNext ==
    \/ ConcurrentSubmit
    \/ Poll
    \/ handleDeleteTaskRequest
    \/ \E i \in DOMAIN queue : ConcurrentDeliver(i)
    \/ \E i \in DOMAIN queue : ConcurrentConsume(i)

ConcurrentSpec == Init /\ [][ConcurrentNext]_vars

\* the lifecycle of one task whose key and model come from the query or from the
\* environment: every accepted upload is the same file, and no task is deleted
PrioritySubmit ==
    /\ Submit(MaxTasks)
    /\ resp'.code = 202 => resp'.request.file = JsonTwo

PriorityNext ==
    \/ PrioritySubmit
    \/ Poll
    \/ \E i \in DOMAIN queue : Deliver(i)
    \/ \E i \in DOMAIN queue : Consume(i)
    \/ \E i \in DOMAIN queue : Terminate(i)

PrioritySpec == Init /\ [][PriorityNext]_vars

\* the lifecycle of one task whose key comes from the query or from the environment,
\* with the client's polls and deletes
SecretNext ==
    \/ PrioritySubmit
    \/ Poll
    \/ handleDeleteTaskRequest
    \/ \E i \in DOMAIN queue : Deliver(i)
    \/ \E i \in DOMAIN queue : Consume(i)
    \/ \E i \in DOMAIN queue : Terminate(i)

SecretSpec == Init /\ [][SecretNext]_vars

\* the lifecycle of one task under the scheduling the platform guarantees: the queue
\* delivers every pending message, and every await of a running invocation returns
\* (with a value or an exception) unless the platform ends the invocation first
LiveNext ==
    \/ SubmitWithQueryKey(MaxTasks)
    \/ \E i \in DOMAIN queue : Deliver(i)
    \/ \E i \in DOMAIN queue : Consume(i)
    \/ \E i \in DOMAIN queue : Terminate(i)

LiveSpec ==
    /\ Init
    /\ [][LiveNext]_vars
    /\ WF_vars(\E i \in DOMAIN queue : Deliver(i))
    /\ WF_vars(\E i \in DOMAIN queue : Consume(i))

\* one invocation of queue() at a time, on a batch of up to MaxBatch pending messages;
\* calc holds the batch of the invocation.  The loop takes the messages in order, so a
\* step belongs to the first message of the batch that is still in flight.
BatchDeliver ==
    /\ \A i \in DOMAIN queue : queue[i].state # "inflight"
    /\ \E batch \in SUBSET { i \in DOMAIN queue : queue[i].state = "pending" } :
          /\ batch # {}
          /\ Cardinality(batch) <= MaxBatch
          /\ queue' = [i \in DOMAIN queue |->
                          IF i \in batch
                          THEN [queue[i] EXCEPT !.state = "inflight", !.attempts = @ + 1]
                          ELSE queue[i]]
          /\ inv' = [i \in DOMAIN inv |->
                        IF i \in batch THEN [IdleInv EXCEPT !.pc = "status"] ELSE inv[i]]
          /\ calc' = [fn |-> "queue", batch |-> batch]
    /\ resp' = NoResp
    /\ UNCHANGED <<store, del, written, deleted>>

BatchConsume(i) ==
    /\ \A j \in 1..(i - 1) : queue[j].state # "inflight"
    /\ ConcurrentConsume(i)

BatchNext ==
    \/ ConcurrentSubmit
    \/ BatchDeliver
    \/ \E i \in DOMAIN queue : BatchConsume(i)

BatchSpec == Init /\ [][BatchNext]_vars

----------------------------------------------------------------------------
(* The pure functions, each applied to inputs drawn from bounded sets.  The  *)
(* worker's state takes no part: calc holds the input and what was returned. *)

system == <<queue, inv, store, resp, del, written, deleted>>

Range(f) == { f[x] : x \in DOMAIN f }

NoField == [x \in {} |-> 0]

Field(alias, value) == IF alias = "none" THEN NoField ELSE (alias :> value)

\* a plain source object that names each count by one alias, or not at all
SourceTally(d) ==
    [kind |-> "tally", fn |-> FALSE]
        @@ Field(d.agree[1], d.agree[2])
        @@ Field(d.disagree[1], d.disagree[2])
        @@ Field(d.pass[1], d.pass[2])

\* how a source names one count: no member, or one of the aliases with a value
Named(aliases) == {<<"none", 0>>} \cup (Range(aliases) \X (0..MaxCount))

TallyDescriptions ==
    [agree : Named(AgreeAliases), disagree : Named(DisagreeAliases), pass : Named(PassAliases)]

\* the vote information of the comments normalised: plain objects under each family
\* of aliases, with counts missing, and a VoteTally instance
VoteSources ==
    { SourceTally([agree |-> <<"agrees", 1>>, disagree |-> <<"disagrees", 2>>, pass |-> <<"none", 0>>]),
      SourceTally([agree |-> <<"agreeCount", 2>>, disagree |-> <<"none", 0>>, pass |-> <<"passCount", 1>>]),
      SourceTally([agree |-> <<"agree", 1>>, disagree |-> <<"disagree", 1>>, pass |-> <<"pass", 2>>]),
      SourceTally([agree |-> <<"none", 0>>, disagree |-> <<"none", 0>>, pass |-> <<"passes", 1>>]),
      Tally(TRUE, 1, 0, 2) }

GroupNames == {"g1", "g2"}

\* an object whose members are all objects is a group: also the object with no member
GroupSources ==
    UNION { { [kind |-> "group", groups |-> g] : g \in [names -> VoteSources] }
            : names \in SUBSET GroupNames }

VoteInfos == {NoVote} \cup VoteSources \cup GroupSources

CommentLists ==
    UNION { [1..n -> { Comment(id, vi) : id \in {"c1"}, vi \in VoteInfos }]
            : n \in 1..MaxComments }

TallyInit ==
    /\ Deployed
    /\ \/ \E d \in TallyDescriptions :
             calc = [fn |-> "source", desc |-> d, src |-> SourceTally(d)]
       \/ \E comments \in CommentLists :
             calc = [fn |-> "comments", in |-> comments]

ToVoteTally ==
    /\ calc.fn = "source"
    /\ calc' = [fn |-> "toVoteTally", desc |-> calc.desc, src |-> calc.src,
                out |-> toVoteTally(calc.src)]
    /\ UNCHANGED system

\* the consumer's normalisation, applied to the list as parsed
NormalizeDirect ==
    /\ calc.fn = "comments"
    /\ calc' = [fn |-> "direct", in |-> calc.in,
                direct |-> normalizeCommentsVoteInfo(calc.in)]
    /\ UNCHANGED system

\* Submit's normalisation for the queue, then the consumer's normalisation
NormalizeViaQueue ==
    /\ calc.fn = "direct"
    /\ calc' = [fn |-> "roundTrip", in |-> calc.in, direct |-> calc.direct,
                queued |-> normalizeCommentsForQueue(calc.in),
                out |-> normalizeCommentsVoteInfo(normalizeCommentsForQueue(calc.in))]
    /\ UNCHANGED system

TallyNext == ToVoteTally \/ NormalizeDirect \/ NormalizeViaQueue

TallySpec == TallyInit /\ [][TallyNext]_vars

\* the columns that decide the format of a CSV
FormatColumns ==
    {"comment-id", "comment_text", "agrees", "disagrees", "passes", "comment-body"}

\* the per-group columns of the headers under study
StudiedGroupColumns ==
    {GroupColumn("g1", "agree"), GroupColumn("g1", "disagree"), GroupColumn("g1", "pass"),
     GroupColumn("g2", "agree"), GroupColumn("g2", "disagree")}

\* the headers under study: every set of format columns, with and without the
\* moderated column; the short column names; per-group columns
CsvHeaders ==
    { S \cup E : S \in SUBSET FormatColumns, E \in {{}, {"moderated"}} }
        \cup {{"id", "text"}, {"id", "text", "agrees", "disagrees"}}
        \cup { {"comment-id", "comment_text"} \cup G : G \in SUBSET StudiedGroupColumns }

\* the cells a column holds: ids and texts that may be empty, counts that may be
\* negative, empty or no number, the moderation values
CellsOf(h) ==
    IF h \in {"comment-id", "id"} THEN {"c1", ""}
    ELSE IF h \in {"comment_text", "text", "comment-body"} THEN {"t", ""}
    ELSE IF h = "agrees" THEN {"3", "x", "-2"}
    ELSE IF h = "disagrees" THEN {"1", ""}
    ELSE IF h = "passes" THEN {"2", "-1", "2x"}
    ELSE IF h = "moderated" THEN {"1", "-1", "0", "", "x"}
    ELSE IF h \in GroupColumns("agree") THEN {"2", "x"}
    ELSE IF h \in GroupColumns("disagree") THEN {"1", "-1"}
    ELSE {"0", "1.5"}

RECURSIVE RowsOver(_)
\* the rows under a header
RowsOver(headers) ==
    IF headers = {} THEN {NoField}
    ELSE LET h == CHOOSE x \in headers : TRUE
         IN  { (h :> c) @@ r : c \in CellsOf(h), r \in RowsOver(headers \ {h}) }

\* the headers whose files are studied with several data lines
ListHeaders == {{"comment-id", "comment_text"}, {"id", "text", "agrees", "disagrees"}}

\* a CSV as readCSVFile returns it: one data line under any header under study, up
\* to MaxRows data lines under the list headers
CsvInit ==
    /\ Deployed
    /\ \E H \in CsvHeaders :
          \/ \E r \in RowsOver(H) : calc = [fn |-> "csv", headers |-> H, rows |-> <<r>>]
          \/ /\ H \in ListHeaders
             /\ \E n \in 2..MaxRows : \E rows \in [1..n -> RowsOver(H)] :
                   calc = [fn |-> "csv", headers |-> H, rows |-> rows]

DetectCSVFormat ==
    /\ calc.fn = "csv"
    /\ calc' = [fn |-> "detectCSVFormat", headers |-> calc.headers, rows |-> calc.rows,
                format |-> detectCSVFormat(calc.headers)]
    /\ UNCHANGED system

\* parseCSVData throws when the conversion of a pol.is export fails
ParseCSVData ==
    /\ calc.fn = "detectCSVFormat"
    /\ calc' = [fn |-> "parseCSVData", headers |-> calc.headers, rows |-> calc.rows,
                format |-> calc.format,
                threw |-> (calc.format = "pol.is" /\ convertCSV_newFails(calc.headers)),
                parsedHeaders |-> parseCSVDataHeaders(calc.headers),
                parsedRows |-> IF calc.format = "pol.is" /\ convertCSV_newFails(calc.headers)
                               THEN <<>>
                               ELSE parseCSVDataRows(calc.headers, calc.rows)]
    /\ UNCHANGED system

\* convertToComments throws when the id or the text column is not found
ConvertToComments ==
    /\ calc.fn = "parseCSVData"
    /\ ~calc.threw
    /\ LET found == HasIdColumn(calc.parsedHeaders) /\ HasTextColumn(calc.parsedHeaders)
       IN  calc' = [calc EXCEPT !.fn = "convertToComments"]
                      @@ [columnsFound |-> found,
                          comments |-> IF found
                                       THEN convertToComments(calc.parsedHeaders, calc.parsedRows)
                                       ELSE <<>>]
    /\ UNCHANGED system

\* row[column] || 0
CellOrZero(row, column) == IF column \in DOMAIN row THEN row[column] ELSE ""

JsTally(a, d, p) == [kind |-> "tally", fn |-> TRUE, agreeCount |-> a, disagreeCount |-> d, passCount |-> p]

getVoteInfoFromCsvRow(row, usesGroups, groupNames) ==
    IF usesGroups
    THEN [kind |-> "group",
          groups |-> [g \in groupNames |->
                         JsTally(NumberOrZero(CellOrZero(row, GroupColumn(g, "agree"))),
                                 NumberOrZero(CellOrZero(row, GroupColumn(g, "disagree"))),
                                 NumberOrZero(CellOrZero(row, GroupColumn(g, "pass"))))]]
    ELSE JsTally(NumberOrZero(CellOrZero(row, "agrees")),
                 NumberOrZero(CellOrZero(row, "disagrees")),
                 NumberOrZero(CellOrZero(row, "passes")))

GetVoteInfoFromCsvRow ==
    /\ calc.fn = "csv"
    /\ \E i \in DOMAIN calc.rows, usesGroups \in BOOLEAN :
          calc' = [fn |-> "getVoteInfoFromCsvRow", headers |-> calc.headers,
                   row |-> calc.rows[i], usesGroups |-> usesGroups,
                   out |-> getVoteInfoFromCsvRow(calc.rows[i], usesGroups, CsvGroups)]
    /\ UNCHANGED system

CsvNext == DetectCSVFormat \/ ParseCSVData \/ ConvertToComments \/ GetVoteInfoFromCsvRow

CsvSpec == CsvInit /\ [][CsvNext]_vars

\* the characters of the topics strings under study: two letters, the separators,
\* a blank and a quote
TopicChars == {"A", "B", ",", ";", ":", " ", "'"}

TopicStrings == UNION { [1..n -> TopicChars] : n \in 0..MaxTopicChars }

\* replace(/^["']|["']$/g, ''): a quote at the start and a quote at the end
StripQuotes(s) ==
    LET front == IF Len(s) > 0 /\ s[1] = "'" THEN Tail(s) ELSE s
    IN  IF Len(front) > 0 /\ front[Len(front)] = "'"
        THEN SubSeq(front, 1, Len(front) - 1)
        ELSE front

RECURSIVE Split(_, _)
\* s.split(sep)
Split(s, sep) ==
    IF \A i \in DOMAIN s : s[i] # sep THEN <<s>>
    ELSE LET k == CHOOSE i \in DOMAIN s : s[i] = sep /\ \A j \in 1..(i - 1) : s[j] # sep
         IN  <<SubSeq(s, 1, k - 1)>> \o Split(SubSeq(s, k + 1, Len(s)), sep)

RECURSIVE Trim(_)
Trim(s) ==
    IF Len(s) > 0 /\ s[1] = " " THEN Trim(Tail(s))
    ELSE IF Len(s) > 0 /\ s[Len(s)] = " " THEN Trim(SubSeq(s, 1, Len(s) - 1))
    ELSE s

RECURSIVE Text(_)
\* the string of a sequence of characters
Text(s) == IF s = <<>> THEN "" ELSE s[1] \o Text(Tail(s))

LowerCase(c) == IF c = "A" THEN "a" ELSE IF c = "B" THEN "b" ELSE c

RECURSIVE TopicId(_)
\* toLowerCase().replace(/\s+/g, '-')
TopicId(s) ==
    IF s = <<>> THEN ""
    ELSE IF s[1] = " "
    THEN IF Len(s) > 1 /\ s[2] = " " THEN TopicId(Tail(s)) ELSE "-" \o TopicId(Tail(s))
    ELSE LowerCase(s[1]) \o TopicId(Tail(s))

parseTopicsString(topicsString) ==
    IF Trim(topicsString) = <<>> THEN <<>>
    ELSE LET parts == Split(StripQuotes(topicsString), ",")
             trimmed == [i \in DOMAIN parts |-> Trim(parts[i])]
             topicParts == SelectSeq(trimmed, LAMBDA t : t # <<>>)
         IN  [i \in DOMAIN topicParts |->
                 [id |-> TopicId(topicParts[i]), name |-> Text(topicParts[i]),
                  subtopics |-> <<>>]]

TopicsInit ==
    /\ Deployed
    /\ \E topicsString \in TopicStrings : calc = [fn |-> "topicsString", in |-> topicsString]

ParseTopicsString ==
    /\ calc.fn = "topicsString"
    /\ calc' = [fn |-> "parseTopicsString", in |-> calc.in, out |-> parseTopicsString(calc.in)]
    /\ UNCHANGED system

TopicsNext == ParseTopicsString

TopicsSpec == TopicsInit /\ [][TopicsNext]_vars

ALLOWED_ORIGINS ==
    {"http://localhost:3000", "http://localhost:8787", "http://localhost:5173",
     "https://sensemaker-frontend.pages.dev",
     "https://sensemaker-backend.bestian123.workers.dev", "https://sensemaker.vtaiwan.tw"}

\* the Origin headers of the requests under study: the listed origins, no header (""),
\* the opaque origin "null", and origins that are not listed
Origins ==
    ALLOWED_ORIGINS
        \cup {"", "null", "http://localhost:9999", "https://localhost.evil.example",
              "https://evil.example"}

\* origin.includes('localhost')
IncludesLocalhost(origin) ==
    origin \in {"http://localhost:3000", "http://localhost:8787", "http://localhost:5173",
                "http://localhost:9999", "https://localhost.evil.example"}

\* env.IS_DEVELOPMENT, "undefined" when it is not set
DevelopmentSettings == {"true", "false", "undefined"}

isOriginAllowed(origin, isDevelopment) ==
    IF isDevelopment /\ IncludesLocalhost(origin) THEN TRUE
    ELSE origin \in ALLOWED_ORIGINS

getCorsHeaders(origin, isDevelopment) ==
    LET isAllowed == isOriginAllowed(origin, isDevelopment)
        allowOrigin == IF isDevelopment /\ IncludesLocalhost(origin) THEN origin
                       ELSE IF isAllowed THEN origin ELSE "null"
    IN  ("Access-Control-Allow-Origin" :> allowOrigin)
            @@ ("Access-Control-Allow-Methods" :> "GET, POST, DELETE, OPTIONS")
            @@ ("Access-Control-Allow-Headers" :> "Content-Type, Authorization")
            @@ ("Access-Control-Max-Age" :> "86400")
            @@ ("Vary" :> "Origin")

Methods == {"GET", "POST", "DELETE", "OPTIONS"}

Paths ==
    {"/api/test", "/api/sensemake", "/api/sensemake/result/t1", "/api/sensemake/delete/t1",
     "/api/test-llm", "/api/test-csv", "/api/test-json", "/api/test-r2", "/unknown"}

\* the branch of fetch that answers the request
Route(method, path) ==
    IF method = "OPTIONS" THEN "preflight"
    ELSE IF path = "/api/test" /\ method = "GET" THEN "test"
    ELSE IF path = "/api/sensemake/result/t1" /\ method = "GET" THEN "handleGetResultRequest"
    ELSE IF path = "/api/sensemake/delete/t1" /\ method = "DELETE" THEN "handleDeleteTaskRequest"
    ELSE IF path = "/api/test-llm" /\ method = "POST" THEN "handleTestLLMRequest"
    ELSE IF path = "/api/sensemake" /\ method = "POST" THEN "handleSensemakeRequest"
    ELSE IF path = "/api/test-csv" /\ method = "POST" THEN "handleTestCsvRequest"
    ELSE IF path = "/api/test-json" /\ method = "POST" THEN "handleTestJsonRequest"
    ELSE IF path = "/api/test-r2" /\ method = "POST" THEN "handleTestR2Request"
    ELSE "notFound"

\* fetch: the branch taken and the CORS headers of its response (every Response of
\* the worker spreads corsHeaders into its headers)
fetch(method, path, origin, setting) ==
    LET isDevelopment == setting = "true" \/ setting = "undefined"
    IN  [route |-> Route(method, path),
         status |-> IF Route(method, path) = "preflight" THEN "200"
                    ELSE IF Route(method, path) = "notFound" THEN "404"
                    ELSE IF Route(method, path) = "test" THEN "200"
                    ELSE "of the handler",
         headers |-> getCorsHeaders(origin, isDevelopment)]

CorsInit ==
    /\ Deployed
    /\ \E method \in Methods, path \in Paths, origin \in Origins, setting \in DevelopmentSettings :
          calc = [fn |-> "request", method |-> method, path |-> path, origin |-> origin,
                  setting |-> setting]

Fetch ==
    /\ calc.fn = "request"
    /\ calc' = [calc EXCEPT !.fn = "fetch"]
                  @@ [response |-> fetch(calc.method, calc.path, calc.origin, calc.setting)]
    /\ UNCHANGED system

CorsNext == Fetch

CorsSpec == CorsInit /\ [][CorsNext]_vars

----------------------------------------------------------------------------
(* Properties *)

TaskIdOf(i) == queue[i].body.taskId

Accepts(id) == \E i \in DOMAIN queue : TaskIdOf(i) = id

\* C1: for every task accepted by Submit, a Poll for its taskId made before any
\* consumer has written a result record for that taskId returns 404 not_found,
\* while the task is queued and while a consumer is processing it.
\* (resp is the response of the step just taken: the state is the one Poll read.)
C1_PollBeforeResultIs404 ==
    \A id \in TaskIds :
        (resp.op = "poll" /\ resp.body.taskId = id /\ Accepts(id) /\ id \notin written)
            => (resp.code = 404 /\ resp.body.status = "not_found")

\* C1 witness: a Poll has just returned 404 for a task that a consumer is
\* processing, its status record already written as processing.
C1_Witness ==
    /\ resp.op = "poll" /\ resp.code = 404
    /\ \E i \in DOMAIN queue :
          /\ resp.body.taskId = TaskIdOf(i)
          /\ At(i, "summarize")
          /\ store[StatusKey(TaskIdOf(i))] # Absent
          /\ store[StatusKey(TaskIdOf(i))].status = "processing"

\* C2: Submit responds 202 with a fresh taskId and status queued exactly when the
\* request appended one message carrying that taskId to the queue; a Submit that
\* responds 400 or 500 leaves the queue as it was.
C2_SubmitAcceptsIffEnqueued ==
    [][resp'.op = "submit" =>
          IF resp'.code = 202
          THEN /\ resp'.body.status = "queued"
               /\ Len(queue') = Len(queue) + 1
               /\ SubSeq(queue', 1, Len(queue)) = queue
               /\ queue'[Len(queue')].body.taskId = resp'.body.taskId
               /\ queue'[Len(queue')].state = "pending"
               /\ \A i \in DOMAIN queue : TaskIdOf(i) # resp'.body.taskId
          ELSE /\ resp'.code \in {400, 500}
               /\ queue' = queue]_vars

\* C2 witness: a second task has just been accepted, under an id of its own.
C2_Witness ==
    /\ resp.op = "submit" /\ resp.code = 202
    /\ Len(queue) >= 2
    /\ TaskIdOf(Len(queue)) = resp.body.taskId
    /\ TaskIdOf(1) # resp.body.taskId

\* C3: a message is acknowledged only in a delivery that itself wrote the completed
\* result record, after that write; a delivery in which a stage or the result write
\* threw never acknowledges.
C3_AckOnlyAfterResultWritten ==
    \A i \in DOMAIN queue :
        /\ queue[i].state = "acked" <=> inv[i].mark = "ack"
        /\ inv[i].mark = "ack" => (inv[i].stored = "completed" /\ inv[i].err.kind = "none")
        /\ inv[i].err.kind # "none" => inv[i].mark # "ack"
        /\ (queue[i].state = "inflight" /\ inv[i].pc = "ack") => inv[i].stored = "completed"

\* C3 witness: a message acknowledged on a redelivery.
C3_Witness ==
    \E i \in DOMAIN queue :
        queue[i].state = "acked" /\ queue[i].attempts >= 2 /\ inv[i].stored = "completed"

StageThrew(i) == \E k \in DOMAIN inv[i].log : inv[i].log[k].error.kind # "none"

ThrownError(i) == inv[i].log[Len(inv[i].log)].error

\* C4 as stated: if a stage threw, then at the end of the delivery the result record
\* is a failed record with a non-empty error, and the message is marked for retry
\* and not acknowledged.
C4_Original ==
    [][\A i \in DOMAIN queue :
          ((Retry(i) \/ Ack(i)) /\ StageThrew(i))
              => LET r == store'[ResultKey(TaskIdOf(i))]
                 IN  /\ r # Absent
                     /\ r.status = "failed"
                     /\ r.error # ""
                     /\ inv'[i].mark = "retry"
                     /\ queue'[i].state # "acked"]_vars

\* C4 amended: if a stage threw, the handler ends the delivery with the message
\* marked for retry and not acknowledged; when the write of the failed record
\* succeeded and no DELETE removed it, the record has status failed and its error is
\* the thrown Error's message, or "Unknown error" for a thrown value that is no Error
\* (so it is non-empty unless the Error's message is empty).
C4_FailedRecordAndRetry ==
    \A i \in DOMAIN queue :
        (inv[i].pc = "done" /\ StageThrew(i))
            => LET r == store[ResultKey(TaskIdOf(i))]
                   e == ThrownError(i)
               IN  /\ inv[i].mark = "retry"
                   /\ queue[i].state # "acked"
                   /\ (inv[i].stored = "failed" /\ r # Absent)
                        => /\ r.status = "failed"
                           /\ r.taskId = TaskIdOf(i)
                           /\ r.error = IF e.kind = "Error" THEN e.message ELSE "Unknown error"
                           /\ (e.kind = "Error" /\ e.message # "") => r.error # ""

\* C4 witness: a delivery has ended after a stage threw an Error with a message, the
\* failed record is stored and the message is marked for retry.
C4_Witness ==
    \E i \in DOMAIN queue :
        /\ inv[i].pc = "done" /\ StageThrew(i) /\ inv[i].mark = "retry"
        /\ inv[i].stored = "failed"
        /\ store[ResultKey(TaskIdOf(i))] # Absent
        /\ store[ResultKey(TaskIdOf(i))].error = "Empty response"

C6_Original ==
    \A id \in TaskIds :
        (deleted[id] # "no" /\ resp.op = "poll" /\ resp.body.taskId = id)
            => resp.code = 404

\* C6 amended: after a DELETE for a taskId has returned 200, every later Poll for
\* that taskId returns 404 provided no delivery of the task was pending or in flight
\* when the DELETE removed the result record (the message was acknowledged or
\* dead-lettered, or no such task exists).
C6_PollAfterSettledDelete ==
    \A id \in TaskIds :
        deleted[id] = "settled"
            => /\ store[ResultKey(id)] = Absent
               /\ (resp.op = "poll" /\ resp.body.taskId = id) => resp.code = 404

\* C6 witness: a Poll has just returned 404 for a task deleted after its message
\* was acknowledged.
C6_Witness ==
    /\ resp.op = "poll" /\ resp.code = 404
    /\ \E i \in DOMAIN queue :
          /\ resp.body.taskId = TaskIdOf(i)
          /\ deleted[TaskIdOf(i)] = "settled"
          /\ queue[i].state = "acked"

\* C7: a message is delivered at most MaxRetries + 1 times; after the last failed
\* delivery it is in the dead-letter queue, and there no delivery and no consumer
\* step of it can happen any more.
C7_BoundedDeliveries ==
    \A i \in DOMAIN queue :
        /\ queue[i].attempts <= MaxRetries + 1
        /\ queue[i].state = "pending" => queue[i].attempts <= MaxRetries
        /\ queue[i].state = "dead"
              => /\ queue[i].attempts = MaxRetries + 1
                 /\ inv[i].mark # "ack"
                 /\ ~ ENABLED (Deliver(i) \/ Consume(i) \/ Terminate(i))

\* C7 witness: a message in the dead-letter queue after its fourth delivery ended
\* in retry().
C7_Witness ==
    \E i \in DOMAIN queue :
        queue[i].state = "dead" /\ queue[i].attempts = 4 /\ inv[i].mark = "retry"

\* C8 as stated: once a terminal result record is stored, no later step other than
\* a DELETE changes it.
C8_Original ==
    [][\A i \in DOMAIN queue :
          LET k == ResultKey(TaskIdOf(i))
          IN  store[k] # Absent => store'[k] \in {store[k], Absent}]_vars

\* C8 amended: a stored result record is changed by a delivery only at that
\* delivery's own result write, which replaces it whole by the delivery's terminal
\* record; the start of a new attempt and the analysis stages leave it as it is (the
\* new attempt writes only the status record), and so does every step taken once the
\* message is acknowledged or dead-lettered.
C8_ResultChangedOnlyByResultWrite ==
    [][\A i \in DOMAIN queue :
          LET k == ResultKey(TaskIdOf(i))
          IN  (store'[k] # store[k] /\ store'[k] # Absent)
                  => /\ At(i, "put") \/ At(i, "putFailed")
                     /\ store'[k].taskId = TaskIdOf(i)
                     /\ store'[k].status \in {"completed", "failed"}
                     /\ inv'[i].stored = store'[k].status
                     /\ store'[StatusKey(TaskIdOf(i))] = store[StatusKey(TaskIdOf(i))]]_vars

\* C8 witness: a new attempt has written its fresh status record while the failed
\* record of an earlier delivery is still the stored result.
C8_Witness ==
    \E i \in DOMAIN queue :
        /\ At(i, "learnTopics") /\ queue[i].attempts >= 2
        /\ store[ResultKey(TaskIdOf(i))] # Absent
        /\ store[ResultKey(TaskIdOf(i))].status = "failed"
        /\ store[StatusKey(TaskIdOf(i))] # Absent
        /\ store[StatusKey(TaskIdOf(i))].status = "processing"

StageOrder == <<"learnTopics", "categorizeComments", "summarize">>

StageNames == {StageOrder[k] : k \in DOMAIN StageOrder}

\* C9: in every delivery the stages run in the order learnTopics, categorizeComments,
\* summarize, each after the previous one returned; categorizeComments gets the
\* topics learnTopics returned, summarize gets the comments categorizeComments
\* returned; after a stage threw no later stage runs.
C9_StagesInOrder ==
    \A i \in DOMAIN queue :
        LET l == inv[i].log
        IN  /\ Len(l) <= 3
            /\ \A k \in DOMAIN l :
                  /\ l[k].stage = StageOrder[k]
                  /\ k < Len(l) => l[k].error.kind = "none"
            /\ Len(l) >= 2 => (l[2].topics = l[1].out /\ l[2].comments = l[1].comments)
            /\ Len(l) >= 3 => (l[3].comments = l[2].out /\ l[3].topics = l[1].out)
            /\ Len(l) >= 1 => (l[1].comments = Comments(i) /\ l[1].topics = <<>>)
            /\ (Len(l) >= 1 /\ l[Len(l)].error.kind # "none") => inv[i].pc \notin StageNames
            /\ At(i, "learnTopics") => Len(l) = 0
            /\ At(i, "categorizeComments") => Len(l) = 1
            /\ At(i, "summarize") => Len(l) = 2

\* C9 witness: all three stages have returned in one delivery.
C9_Witness ==
    \E i \in DOMAIN queue :
        /\ At(i, "put") /\ Len(inv[i].log) = 3
        /\ inv[i].log[2].topics # <<>>
        /\ Len(inv[i].log[3].comments) = 2

\* C10: a redelivery runs the three stages again from learnTopics, whatever status
\* or result record is stored, and its result write replaces the stored result record.
C10_RedeliveryRerunsAndOverwrites ==
    \A i \in DOMAIN queue :
        queue[i].attempts >= 2
            => LET k == ResultKey(TaskIdOf(i))
                   l == inv[i].log
               IN  /\ At(i, "status") => (l = <<>> /\ ENABLED StatusProcessing(i, TRUE))
                   /\ At(i, "learnTopics") => (l = <<>> /\ ENABLED LearnTopics(i, NoError))
                   /\ (At(i, "put") \/ At(i, "ack") \/ inv[i].mark = "ack")
                        => (Len(l) = 3 /\ \A n \in 1..3 : l[n].error.kind = "none")
                   /\ At(i, "put") => ENABLED PutResult(i, TRUE)
                   /\ At(i, "ack")
                        => store[k] \in {Absent, ResultData(Task(i), Comments(i), MarkdownContent(i))}
                   /\ At(i, "putFailed") => (Len(l) >= 1 /\ ENABLED PutFailed(i, TRUE))
                   /\ (At(i, "statusFailed") /\ inv[i].stored = "failed")
                        => store[k] \in {Absent, ErrorData(TaskIdOf(i), inv[i].err)}

\* C10 witness: a redelivery has run the three stages and is about to replace the
\* failed record of an earlier delivery.
C10_Witness ==
    \E i \in DOMAIN queue :
        /\ At(i, "put") /\ queue[i].attempts >= 2 /\ Len(inv[i].log) = 3
        /\ store[ResultKey(TaskIdOf(i))] # Absent
        /\ store[ResultKey(TaskIdOf(i))].status = "failed"

\* C11: the response of Poll is determined by the record stored under {taskId}.json
\* at the read alone: absent gives 404 not_found, a failed record gives 500 with that
\* record's error, a completed record gives 200 with that record's summary; every
\* other member of the response is a member of that one record, whatever the status
\* record holds.
C11_PollDeterminedByResultRecord ==
    resp.op = "poll"
        => LET r == store[ResultKey(resp.body.taskId)]
               \* a member the record lacks is undefined and absent from the JSON
               Carries(f) == IF f \in DOMAIN r
                             THEN f \in DOMAIN resp.body /\ resp.body[f] = r[f]
                             ELSE f \notin DOMAIN resp.body
           IN  /\ r = Absent => (resp.code = 404 /\ resp.body.status = "not_found")
               /\ (r # Absent /\ r.status = "failed")
                    => /\ resp.code = 500 /\ resp.body.status = "failed"
                       /\ Carries("error") /\ Carries("failedAt")
               /\ (r # Absent /\ r.status = "completed")
                    => /\ resp.code = 200 /\ resp.body.status = "completed"
                       /\ Carries("summary") /\ Carries("commentsProcessed")
                       /\ Carries("model") /\ Carries("completedAt")
               /\ r # Absent
                    => \A f \in DOMAIN resp.body \ {"success", "taskId", "status"} :
                          f \in DOMAIN r /\ resp.body[f] = r[f]

\* C11 witness: a Poll has just returned 500 with the error of the stored failed
\* record while the status record of the task says processing (a new attempt runs).
C11_Witness ==
    /\ resp.op = "poll" /\ resp.code = 500
    /\ "error" \in DOMAIN resp.body /\ resp.body.error = "Empty response"
    /\ \E i \in DOMAIN queue :
          /\ resp.body.taskId = TaskIdOf(i)
          /\ queue[i].attempts >= 2
          /\ store[StatusKey(TaskIdOf(i))] # Absent
          /\ store[StatusKey(TaskIdOf(i))].status = "processing"

OnlyKeyChanged(key) == \A k \in Keys \ {key} : store'[k] = store[k]

FailedPutFailed(i) ==
    /\ inv[i].pc \in {"statusFailed", "retry", "done"}
    /\ StageThrew(i)
    /\ inv[i].stored = "none"

\* C13: if the write of the failed record itself fails, the error that reaches the
\* queue handler is the error the stage threw, not the storage error, and the
\* delivery ends with the message marked for retry and not acknowledged.
C13_StorageFailureDoesNotMask ==
    \A i \in DOMAIN queue :
        FailedPutFailed(i)
            => /\ inv[i].err = ThrownError(i)
               /\ inv[i].err # StorageError
               /\ inv[i].mark # "ack"
               /\ queue[i].state # "acked"
               /\ inv[i].pc = "done" => inv[i].mark = "retry"

\* C13 witness: a delivery has ended in retry() after a stage threw and the put of
\* the failed record threw too.
C13_Witness ==
    \E i \in DOMAIN queue :
        /\ FailedPutFailed(i) /\ inv[i].pc = "done" /\ inv[i].mark = "retry"
        /\ inv[i].err = JsError("Empty response")
        /\ store[ResultKey(TaskIdOf(i))] = Absent

\* what the Submit handler may call
SubmitCalls == {"parseJSONFile", "parseCSVFile", "send"}

\* C14: Submit calls no stage of the analysis engine and writes no result or status
\* record; no Submit response carries the error of a task's analysis, and a 500 of
\* Submit comes from the request's own parse or enqueue; a failed analysis shows in
\* the result record that Poll reads.
C14_SubmitIsolatedFromAnalysis ==
    [][resp'.op = "submit"
          => /\ store' = store
             /\ \A i \in DOMAIN inv : inv'[i] = inv[i]
             /\ \A n \in DOMAIN resp'.calls :
                   resp'.calls[n] \in SubmitCalls /\ resp'.calls[n] \notin StageNames
             /\ resp'.code = 500
                   => (ParseThrows(resp'.request.file) \/ "send" \in {resp'.calls[n] : n \in DOMAIN resp'.calls})
             /\ \A i \in DOMAIN inv :
                   StageThrew(i)
                       => /\ "error" \in DOMAIN resp'.body => resp'.body.error # ErrorMessage(ThrownError(i))
                          /\ resp'.body.message # ErrorMessage(ThrownError(i))
                          /\ (inv[i].stored = "failed" /\ store[ResultKey(TaskIdOf(i))] # Absent)
                                => PollResponse(store', TaskIdOf(i)).code = 500]_vars

\* C14 witness: a Submit has just been accepted with 202 after the analysis of an
\* earlier task failed and its failed record was stored.
C14_Witness ==
    /\ resp.op = "submit" /\ resp.code = 202
    /\ \E i \in DOMAIN queue :
          /\ StageThrew(i) /\ inv[i].pc = "done"
          /\ store[ResultKey(TaskIdOf(i))] # Absent
          /\ store[ResultKey(TaskIdOf(i))].status = "failed"
          /\ TaskIdOf(i) # resp.body.taskId

OwnKeys(id) == {ResultKey(id), StatusKey(id)}

RecordsUnchanged(id) ==
    /\ store'[ResultKey(id)] = store[ResultKey(id)]
    /\ store'[StatusKey(id)] = store[StatusKey(id)]

\* C15: in every interleaving of consumer invocations, polls and deletes of distinct
\* tasks, a step taken for task A writes or deletes only A's result key or A's status
\* key, and leaves the records, the message and the invocation of every other task B
\* as they are.
C15_TasksAreIsolated ==
    [][/\ \A i \in DOMAIN queue :
             Consume(i)
                 => /\ \A k \in Keys \ OwnKeys(TaskIdOf(i)) : store'[k] = store[k]
                    /\ \A j \in DOMAIN queue \ {i} :
                          /\ RecordsUnchanged(TaskIdOf(j))
                          /\ queue'[j] = queue[j] /\ inv'[j] = inv[j]
       /\ (del.pc # "idle" /\ del.id \in TaskIds /\ del' # del)
             => /\ \A k \in Keys \ OwnKeys(del.id) : store'[k] = store[k]
                /\ \A id \in TaskIds \ {del.id} : RecordsUnchanged(id)
                /\ queue' = queue /\ inv' = inv
       /\ resp'.op = "poll" => (store' = store /\ queue' = queue /\ inv' = inv)]_vars

\* C15 witness: two tasks are in flight at once, one with its failed record stored
\* and the other still analysed with no result record.
C15_Witness ==
    \E i, j \in DOMAIN queue :
        /\ i # j
        /\ At(i, "statusFailed") /\ inv[i].stored = "failed"
        /\ store[ResultKey(TaskIdOf(i))] # Absent
        /\ At(j, "summarize")
        /\ store[ResultKey(TaskIdOf(j))] = Absent
        /\ store[StatusKey(TaskIdOf(j))] # Absent

\* C16: a Poll changes neither the store nor the queue, whatever it answers, also
\* when a consumer of the same task is about to write, or has just written, the
\* result record: the consumer's invocation is where it was.
C16_PollIsReadOnly ==
    [][resp'.op = "poll"
          => /\ store' = store
             /\ queue' = queue
             /\ inv' = inv
             /\ del' = del
             /\ \A i \in DOMAIN queue :
                   At(i, "put") => ENABLED PutResult(i, TRUE)]_vars

\* C16 witness: a Poll has just answered 500 from the failed record of an earlier
\* delivery while the consumer of the same task stands right before its put of the
\* completed record.
C16_Witness ==
    /\ resp.op = "poll" /\ resp.code = 500
    /\ \E i \in DOMAIN queue :
          /\ resp.body.taskId = TaskIdOf(i)
          /\ At(i, "put")
          /\ store[ResultKey(TaskIdOf(i))] # Absent

\* the failed record stored for message i was written by a catch block that caught
\* an Error whose message says the engine's response was empty
EmptyResponseRecorded(i) ==
    /\ inv[i].stored = "failed"
    /\ StageThrew(i)
    /\ ThrownError(i) = JsError("Empty response")
    /\ store[ResultKey(TaskIdOf(i))] # Absent
    /\ store[ResultKey(TaskIdOf(i))].status = "failed"

\* C17 as stated: the failed record written after an empty-response error of the
\* engine carries a retry suggestion, and differs from the record written for a
\* generic engine error.
C17_EmptyResponseRetryHint ==
    \A i \in DOMAIN queue :
        EmptyResponseRecorded(i)
            => LET r == store[ResultKey(TaskIdOf(i))]
               IN  /\ "suggestion" \in DOMAIN r
                   /\ r # ErrorData(TaskIdOf(i), JsError(""))

\* C17 case: the failed record of an empty-response error is stored; its error is
\* the thrown message and it has no member that suggests a retry.
C17_Witness ==
    \E i \in DOMAIN queue :
        /\ EmptyResponseRecorded(i)
        /\ store[ResultKey(TaskIdOf(i))] = ErrorData(TaskIdOf(i), JsError("Empty response"))
        /\ "suggestion" \notin DOMAIN store[ResultKey(TaskIdOf(i))]

\* Submit has just answered a request that has an API key and this file, whose type
\* is supported
SubmitAnswered(file) ==
    /\ resp.op = "submit"
    /\ resp.request.apiKey # ""
    /\ resp.request.file = file
    /\ IsJSON(file) \/ IsCSV(file)

\* the file has no data row: a CSV with only its header line, a JSON document whose
\* comment array is empty
ZeroDataRows(file) ==
    /\ file # NoFile
    /\ IF Parser(file) = "parseJSONFile" THEN file.json = "empty" ELSE file.rows = <<>>

\* the handler did not call SENSEMAKER_QUEUE.send
NothingEnqueued == \A k \in DOMAIN resp.calls : resp.calls[k] # "send"

\* C18 as stated: Submit of a file with zero data rows answers 400 "No Valid
\* Comments" and enqueues nothing.
C18_ZeroRowsRejected400 ==
    \A file \in Files :
        (SubmitAnswered(file) /\ ZeroDataRows(file))
            => /\ resp.code = 400
               /\ resp.body.error = "No Valid Comments"
               /\ NothingEnqueued

\* C18 case: Submit has answered a CSV that has only its header line; readCSVFile
\* threw, the answer is 500 and nothing was enqueued.
C18_Witness ==
    /\ SubmitAnswered(CsvEmpty) /\ ZeroDataRows(CsvEmpty)
    /\ resp.code = 500
    /\ resp.body.error = "Request Error"
    /\ resp.body.message = "CSV file must have at least a header row and one data row"
    /\ NothingEnqueued

\* a CSV with data lines, not a pol.is export, whose header lacks an id column
\* (comment-id or id) or a text column (comment_text or text)
MissingRequiredColumns(file) ==
    /\ file # NoFile
    /\ Parser(file) = "parseCSVFile"
    /\ ~readCSVFileThrows(file)
    /\ detectCSVFormat(file.headers) # "pol.is"
    /\ ~HasIdColumn(file.headers) \/ ~HasTextColumn(file.headers)

ColumnsMessage == "CSV must contain comment-id (or id) and comment_text (or text) columns"

\* C19 as stated: Submit of a CSV whose header has no id column or no text column
\* answers 400 with a message that names the columns, and enqueues nothing.
C19_MissingColumnsRejected400 ==
    \A file \in Files :
        (SubmitAnswered(file) /\ MissingRequiredColumns(file))
            => /\ resp.code = 400
               /\ resp.body.message = ColumnsMessage
               /\ NothingEnqueued

\* C19 case: Submit has answered a CSV without a text column; convertToComments
\* threw, the answer is 500 with the message that names the columns, and nothing
\* was enqueued.
C19_Witness ==
    /\ SubmitAnswered(CsvNoText) /\ MissingRequiredColumns(CsvNoText)
    /\ resp.code = 500
    /\ resp.body.error = "Request Error"
    /\ resp.body.message = ColumnsMessage
    /\ resp.calls = <<"parseCSVFile">>

\* the error Submit answers a request that fails validation with: no API key in the
\* query or the environment, no file field, a file that is neither JSON nor CSV by
\* media type or extension; "" for a request that passes
InvalidRequest(request) ==
    IF request.apiKey = "" THEN "Missing API Key"
    ELSE IF request.file = NoFile THEN "Missing File"
    ELSE IF ~IsJSON(request.file) /\ ~IsCSV(request.file) THEN "Unsupported File Type"
    ELSE ""

\* C20: a Submit whose request has no API key, no file, or a file that is neither
\* JSON nor CSV answers 400 with the error of the first check that fails; the
\* handler has called no parser and has not sent to the queue, and the queue, the
\* invocations and the store are as they were.
C20_InvalidRequestRejected ==
    [][(resp'.op = "submit" /\ InvalidRequest(resp'.request) # "")
          => /\ resp'.code = 400
             /\ resp'.body.error = InvalidRequest(resp'.request)
             /\ resp'.calls = <<>>
             /\ queue' = queue
             /\ inv' = inv
             /\ store' = store]_vars

\* C20 witness: Submit has answered 400 "Missing API Key" to a request whose file
\* would make the parser throw, without calling the parser, after a task was accepted.
C20_Witness ==
    /\ resp.op = "submit" /\ resp.code = 400
    /\ resp.body.error = "Missing API Key"
    /\ resp.request.file = CsvNoText /\ ParseThrows(CsvNoText)
    /\ resp.calls = <<>>
    /\ Len(queue) = 1

\* the counts of a vote information: of the tally, or of each group's tally
Counts(vi) ==
    IF vi.kind = "none" THEN <<>>
    ELSE IF vi.kind = "group"
    THEN [k \in DOMAIN vi.groups |->
             <<vi.groups[k].agreeCount, vi.groups[k].disagreeCount, vi.groups[k].passCount>>]
    ELSE <<vi.agreeCount, vi.disagreeCount, vi.passCount>>

\* C21: stripping the tallies of a comment list for the queue and then normalising
\* them yields, comment by comment and group by group, the counts that normalising
\* the list directly yields; a simple tally stays simple, a group keeps its keys, and
\* no comment is lost.
C21_QueueRoundTripKeepsCounts ==
    calc.fn = "roundTrip"
        => /\ Len(calc.out) = Len(calc.in)
           /\ Len(calc.direct) = Len(calc.in)
           /\ \A i \in DOMAIN calc.in :
                 /\ calc.out[i].voteInfo.kind = calc.direct[i].voteInfo.kind
                 /\ calc.out[i].voteInfo.kind = calc.in[i].voteInfo.kind
                 /\ Counts(calc.out[i].voteInfo) = Counts(calc.direct[i].voteInfo)
                 /\ calc.in[i].voteInfo.kind = "group"
                       => DOMAIN calc.out[i].voteInfo.groups = DOMAIN calc.in[i].voteInfo.groups
                 /\ calc.out[i].id = calc.in[i].id

\* C21 witness: a list of a simple tally named by the aliases agrees/disagrees and a
\* group of two tallies, one of them a VoteTally instance with passes, has made the
\* round trip.
C21_Witness ==
    /\ calc.fn = "roundTrip"
    /\ Len(calc.in) = 2
    /\ calc.in[1].voteInfo.kind = "tally" /\ "agrees" \in DOMAIN calc.in[1].voteInfo
    /\ calc.in[2].voteInfo.kind = "group"
    /\ DOMAIN calc.in[2].voteInfo.groups = GroupNames
    /\ calc.in[2].voteInfo.groups["g1"] = Tally(TRUE, 1, 0, 2)
    /\ ~calc.queued[2].voteInfo.groups["g1"].fn
    /\ Counts(calc.out[2].voteInfo)["g1"] = <<1, 0, 2>>
    /\ Counts(calc.out[1].voteInfo) = <<1, 2, 0>>

\* the count a description gives: the value under the alias it uses, 0 with no member
Described(named) == IF named[1] = "none" THEN 0 ELSE named[2]

\* C25: for a tally built from a source object that names its counts by any of the
\* aliases, the total with passes is agree + disagree + pass and the total without is
\* agree + disagree, a missing count being 0; the tally is that of the source which
\* gives the same counts under the names agreeCount, disagreeCount, passCount.
C25_TotalsWhateverTheAlias ==
    calc.fn = "toVoteTally"
        => LET a == Described(calc.desc.agree)
               d == Described(calc.desc.disagree)
               p == Described(calc.desc.pass)
           IN  /\ getTotalCount(calc.out, TRUE) = a + d + p
               /\ getTotalCount(calc.out, FALSE) = a + d
               /\ calc.out = toVoteTally(Tally(FALSE, a, d, p))
               /\ calc.out.fn

\* C25 witness: a source that names its counts agree and passes, and has no disagree
\* count, has been made a tally with the totals 3 and 1.
C25_Witness ==
    /\ calc.fn = "toVoteTally"
    /\ calc.desc = [agree |-> <<"agree", 1>>, disagree |-> <<"none", 0>>, pass |-> <<"passes", 2>>]
    /\ DOMAIN calc.src = {"kind", "fn", "agree", "passes"}
    /\ getTotalCount(calc.out, TRUE) = 3
    /\ getTotalCount(calc.out, FALSE) = 1

\* the conversion of a pol.is export has returned
PolisConverted ==
    /\ calc.fn \in {"parseCSVData", "convertToComments"}
    /\ calc.format = "pol.is"
    /\ ~calc.threw

\* C22: for every row of a pol.is export, the passes are 0 when the moderated cell is
\* 1 or -1 and 1 for any other cell, the comment of the row has that pass count, and
\* the votes cell is agrees + disagrees + passes of the row (NaN when the agrees or
\* the disagrees cell does not begin with an integer).
C22_PolisPassesAndVotes ==
    PolisConverted
        => \A i \in DOMAIN calc.rows :
              LET row == calc.rows[i]
                  passes == IF row["moderated"] = "1" \/ row["moderated"] = "-1" THEN 0 ELSE 1
                  agrees == parseInt(row["agrees"])
                  disagrees == parseInt(row["disagrees"])
              IN  /\ calc.parsedRows[i]["passes"] = ToString(passes)
                  /\ (~agrees.nan /\ ~disagrees.nan)
                        => calc.parsedRows[i]["votes"] = ToString(agrees.val + disagrees.val + passes)
                  /\ (agrees.nan \/ disagrees.nan) => calc.parsedRows[i]["votes"] = "NaN"
                  /\ (calc.fn = "convertToComments" /\ calc.columnsFound)
                        => /\ calc.comments[i].voteInfo.kind = "tally"
                           /\ calc.comments[i].voteInfo.passCount = passes

\* C22 witness: a pol.is row with moderated 0, agrees 3 and disagrees 1 has become a
\* comment with one pass, and its votes cell is 5.
C22_Witness ==
    /\ PolisConverted
    /\ calc.fn = "convertToComments" /\ calc.columnsFound
    /\ calc.rows[1]["moderated"] = "0"
    /\ calc.rows[1]["agrees"] = "3" /\ calc.rows[1]["disagrees"] = "1"
    /\ calc.parsedRows[1]["votes"] = "5"
    /\ calc.comments[1].voteInfo = Tally(TRUE, 3, 1, 1)

CompleteColumns == {"comment-id", "comment_text", "agrees", "disagrees", "passes"}

PolisColumns == {"comment-id", "agrees", "disagrees", "comment-body"}

\* C23 as stated: the format is complete whenever the header has the five complete
\* columns; otherwise pol.is exactly when it has comment-id, agrees, disagrees and
\* comment-body; otherwise unknown.
C23_Original ==
    calc.fn = "detectCSVFormat"
        => calc.format = IF CompleteColumns \subseteq calc.headers THEN "complete"
                         ELSE IF PolisColumns \subseteq calc.headers THEN "pol.is"
                         ELSE "unknown"

\* C23 amended: the format is complete whenever the header has the five complete
\* columns, a comment-body column or not; otherwise it is pol.is exactly when the
\* header has a comment-body column, with or without comment-id, agrees and
\* disagrees; otherwise unknown.
C23_FormatPriority ==
    calc.fn = "detectCSVFormat"
        => /\ CompleteColumns \subseteq calc.headers => calc.format = "complete"
           /\ ~(CompleteColumns \subseteq calc.headers)
                 => /\ calc.format = "pol.is" <=> "comment-body" \in calc.headers
                    /\ calc.format = "unknown" <=> "comment-body" \notin calc.headers
                    /\ PolisColumns \subseteq calc.headers => calc.format = "pol.is"

\* C23 witness: a header with comment-body and comment-id, without agrees and
\* disagrees, has been classified pol.is.
C23_Witness ==
    /\ calc.fn = "detectCSVFormat"
    /\ calc.headers = {"comment-id", "comment-body"}
    /\ calc.format = "pol.is"

\* the tallies of a vote information
TalliesOf(vi) ==
    IF vi.kind = "none" THEN {}
    ELSE IF vi.kind = "group" THEN Range(vi.groups)
    ELSE {vi}

\* C24 as stated: every count of every tally produced from a CSV row is a
\* non-negative integer, by convertToComments and by getVoteInfoFromCsvRow, and a
\* cell that is no integer gives the count 0.
C24_CountsNonNegativeIntegers ==
    /\ (calc.fn = "convertToComments" /\ calc.columnsFound)
          => \A i \in DOMAIN calc.comments :
                /\ \A t \in TalliesOf(calc.comments[i].voteInfo) :
                      /\ t.agreeCount \in Nat
                      /\ t.disagreeCount \in Nat
                      /\ t.passCount \in Nat
                /\ (calc.comments[i].voteInfo.kind = "tally"
                        /\ parseInt(calc.parsedRows[i]["agrees"]).nan)
                      => calc.comments[i].voteInfo.agreeCount = 0
    /\ calc.fn = "getVoteInfoFromCsvRow"
          => \A t \in TalliesOf(calc.out) :
                \A n \in {t.agreeCount, t.disagreeCount, t.passCount} :
                    ~n.nan /\ ~n.frac /\ n.val >= 0

\* C24 case: convertToComments has made a tally with the agree count -2 from a row
\* whose agrees cell is -2.
C24_Witness ==
    /\ calc.fn = "convertToComments" /\ calc.columnsFound
    /\ calc.comments[1].voteInfo.kind = "tally"
    /\ calc.parsedRows[1]["agrees"] = "-2"
    /\ calc.comments[1].voteInfo.agreeCount = -2

\* C26: convertToComments yields one comment per data row, in row order: the comment
\* of the row at (zero-based) index n has the row's id cell, or comment-<n> when the
\* cell is empty, and the row's text cell, empty or not; whatever the vote cells of
\* a row hold, no row is left out.
C26_OneCommentPerRow ==
    (calc.fn = "convertToComments" /\ calc.columnsFound)
        => /\ Len(calc.comments) = Len(calc.rows)
           /\ \A i \in DOMAIN calc.rows :
                 LET row == calc.parsedRows[i]
                     id == row[IF "comment-id" \in calc.parsedHeaders THEN "comment-id" ELSE "id"]
                     text == row[IF "comment_text" \in calc.parsedHeaders
                                 THEN "comment_text" ELSE "text"]
                 IN  /\ id # "" => calc.comments[i].id = id
                     /\ id = "" => calc.comments[i].id = "comment-" \o ToString(i - 1)
                     /\ calc.comments[i].text = text

\* C26 witness: of two rows the second has neither id nor text and counts that are
\* no numbers; it has become the second comment, with the id comment-1 and the
\* empty text.
C26_Witness ==
    /\ calc.fn = "convertToComments" /\ calc.columnsFound
    /\ Len(calc.rows) = 2
    /\ calc.headers = {"id", "text", "agrees", "disagrees"}
    /\ calc.rows[1]["id"] = "c1"
    /\ calc.rows[2] = [id |-> "", text |-> "", agrees |-> "x", disagrees |-> ""]
    /\ calc.comments[1].id = "c1"
    /\ calc.comments[2].id = "comment-1"
    /\ calc.comments[2].text = ""

\* C27 as stated: parsing a topics string returns one Topic per distinct topic name:
\* no name twice, and the names are the topic names of the entries
\* topic[:subtopic[:subsubtopic]], each where it first appears.
C27_TopicsDeduplicated ==
    calc.fn = "parseTopicsString"
        => LET entries == SelectSeq(Split(calc.in, ";"), LAMBDA e : Trim(e) # <<>>)
               names == [i \in DOMAIN entries |-> Text(Trim(Split(entries[i], ":")[1]))]
               first == { i \in DOMAIN names : \A j \in 1..(i - 1) : names[j] # names[i] }
               rank(i) == Cardinality({ j \in first : j <= i })
               firstSeen == [n \in 1..Cardinality(first) |->
                                names[CHOOSE i \in first : rank(i) = n]]
           IN  /\ \A i, j \in DOMAIN calc.out : i # j => calc.out[i].name # calc.out[j].name
               /\ [i \in DOMAIN calc.out |-> calc.out[i].name] = firstSeen

\* C27 case: the string A,A has been parsed into two topics of the name A.
C27_Witness ==
    /\ calc.fn = "parseTopicsString"
    /\ calc.in = <<"A", ",", "A">>
    /\ Len(calc.out) = 2
    /\ calc.out[1].name = "A" /\ calc.out[2].name = "A"

\* the completed record a consumer stored for message i carries the model of the message
RecordHasTaskModel(i) ==
    LET r == store[ResultKey(TaskIdOf(i))]
    IN  (r # Absent /\ r.status = "completed") => r.model = queue[i].body.openRouterModel

C29_AllowOriginOnlyIfListed ==
    calc.fn = "fetch"
        => LET allowOrigin == calc.response.headers["Access-Control-Allow-Origin"]
           IN  /\ calc.origin \in ALLOWED_ORIGINS => allowOrigin = calc.origin
               /\ calc.method = "OPTIONS" => calc.response.status = "200"
               /\ calc.origin \notin ALLOWED_ORIGINS => allowOrigin # calc.origin

\* C29 case: out of development mode, a request with the Origin null, which is not on
\* the list, has been answered with Access-Control-Allow-Origin null.
C29_Witness ==
    /\ calc.fn = "fetch"
    /\ calc.setting = "false"
    /\ calc.origin = "null" /\ calc.origin \notin ALLOWED_ORIGINS
    /\ ~isOriginAllowed(calc.origin, FALSE)
    /\ calc.response.headers["Access-Control-Allow-Origin"] = "null"

\* C30 as stated: the status record that the consumer writes at the start of the n-th
\* delivery of a task carries the attempt count n.
C30_AttemptCountIsDeliveryNumber ==
    [][\A i \in DOMAIN queue :
          (/\ At(i, "status")
           /\ inv'[i].pc = "learnTopics"
           /\ store'[StatusKey(Task(i).taskId)] # store[StatusKey(Task(i).taskId)])
              => /\ store'[StatusKey(Task(i).taskId)].status = "processing"
                 /\ store'[StatusKey(Task(i).taskId)].attempt = queue[i].attempts]_vars

\* C30 case: the second delivery of a task has started and its pipeline is running
\* under a processing status record whose attempt count is 1.
C30_Witness ==
    \E i \in DOMAIN queue :
        /\ At(i, "learnTopics") /\ queue[i].attempts = 2
        /\ store[StatusKey(Task(i).taskId)] # Absent
        /\ store[StatusKey(Task(i).taskId)].status = "processing"
        /\ store[StatusKey(Task(i).taskId)].attempt = 1

\* C31 as stated: once a completed result record exists for a task id, no consumer step
\* replaces it with a failed record, also when the invocation that wrote it was
\* terminated before the acknowledgement and the message is delivered again.
C31_CompletedNeverReplacedByFailed ==
    [][\A i \in DOMAIN queue :
          (/\ store[ResultKey(Task(i).taskId)] # Absent
           /\ store[ResultKey(Task(i).taskId)].status = "completed"
           /\ store'[ResultKey(Task(i).taskId)] # Absent)
              => store'[ResultKey(Task(i).taskId)].status = "completed"]_vars

\* C31 case: the message was delivered again after its completed result record was
\* written, a stage of the new delivery threw, and the consumer is in the catch block
\* of processSensemakeTask with the completed record still in the store.
C31_Witness ==
    \E i \in DOMAIN queue :
        /\ At(i, "putFailed") /\ queue[i].attempts >= 2
        /\ inv[i].err \in Errors
        /\ store[ResultKey(Task(i).taskId)] # Absent
        /\ store[ResultKey(Task(i).taskId)].status = "completed"

\* C32 as stated: a 200 response of GET result/{id} with status completed implies that
\* a consumer wrote a completed result record for the task whose taskId is id; the
\* status record of a task is never served as the result of any id.
C32_PollServesOnlyResultRecords ==
    (resp.op = "poll" /\ resp.code = 200)
        => /\ resp.body.status = "completed"
           /\ resp.body.taskId \in written
           /\ store[ResultKey(resp.body.taskId)].status = "completed"
           /\ \A id \in TaskIds : ResultKey(resp.body.taskId) # StatusKey(id)

\* C32 case: no consumer has written any result record, the task is being processed,
\* and GET result/<taskId>-status has answered 200 completed from the status record.
C32_Witness ==
    /\ resp.op = "poll" /\ resp.code = 200 /\ resp.body.status = "completed"
    /\ written = {}
    /\ \E i \in DOMAIN queue :
          /\ resp.body.taskId = StatusAlias(Task(i).taskId)
          /\ store[ResultKey(Task(i).taskId)] = Absent
          /\ store[StatusKey(Task(i).taskId)] = StatusData(Task(i).taskId, "processing", 1)

\* C33 as stated: whenever a task message is in the dead-letter queue and the client
\* has not deleted the task, a result record with status failed exists for the task.
C33_Original ==
    \A i \in DOMAIN queue :
        (/\ queue[i].state = "dead"
         /\ deleted[Task(i).taskId] = "no" /\ del = IdleDel)
            => /\ store[ResultKey(Task(i).taskId)] # Absent
               /\ store[ResultKey(Task(i).taskId)].status = "failed"

\* C33, amended: when a message is in the dead-letter queue, its last delivery put the
\* failed record successfully and no DELETE has removed a record of the task, the
\* result record has status failed and a Poll of the task is answered 500.
C33_DeadLetteredAfterRecordedFailure ==
    \A i \in DOMAIN queue :
        (/\ queue[i].state = "dead"
         /\ inv[i].stored = "failed"
         /\ deleted[Task(i).taskId] = "no" /\ del = IdleDel)
            => /\ store[ResultKey(Task(i).taskId)] # Absent
               /\ store[ResultKey(Task(i).taskId)].status = "failed"
               /\ PollResponse(store, Task(i).taskId).code = 500

\* C33 case: the fourth delivery failed, put the failed record and marked the message
\* for retry, and the platform moved the message to the dead-letter queue.
C33_Witness ==
    \E i \in DOMAIN queue :
        /\ queue[i].state = "dead" /\ queue[i].attempts = MaxRetries + 1
        /\ inv[i].mark = "retry" /\ inv[i].stored = "failed"
        /\ deleted[Task(i).taskId] = "no" /\ del = IdleDel
        /\ store[ResultKey(Task(i).taskId)] = ErrorData(Task(i).taskId, inv[i].err)

\* C34: if every engine call and every store call returns and the queue delivers every
\* pending message, every enqueued task is eventually acknowledged by a delivery that
\* wrote its completed result record, or is diverted to the dead-letter queue.
C34_EveryTaskSettles ==
    (Len(queue) >= 1)
        ~> (/\ Len(queue) >= 1
            /\ \/ queue[1].state = "acked" /\ inv[1].stored = "completed"
               \/ queue[1].state = "dead")

\* C34 case: every delivery of the task was ended without an acknowledgement, the last
\* of them by the platform while the pipeline was running, and the message has left the
\* queue for the dead-letter queue after the fourth delivery.
C34_Witness ==
    /\ Len(queue) >= 1
    /\ queue[1].state = "dead" /\ queue[1].attempts = MaxRetries + 1
    /\ inv[1].pc = "killed" /\ Len(inv[1].log) >= 1

\* C35: in an invocation of queue() every message of the batch receives exactly one of
\* ack and retry: a mark once given is not changed within the invocation, a message
\* whose handling ended carries one, and when the invocation has gone through the
\* batch no message of it is left without a mark, whatever failed on the way.
C35_OneMarkPerMessage ==
    [][\A i \in DOMAIN queue' :
          /\ (i \in DOMAIN queue /\ inv[i].mark # "none" /\ inv'[i].mark # inv[i].mark)
                => inv'[i].pc = "status"
          /\ inv'[i].pc = "done" => inv'[i].mark \in {"ack", "retry"}
          /\ inv'[i].mark = "ack" => inv'[i].stored = "completed"
          /\ inv'[i].mark = "retry" => inv'[i].stored # "completed"
          /\ (/\ calc'.fn = "queue" /\ i \in calc'.batch
              /\ \A j \in calc'.batch : queue'[j].state # "inflight")
                => inv'[i].pc = "done" /\ inv'[i].mark \in {"ack", "retry"}]_vars

\* C35 case: the invocation took a batch of two messages; the first failed and was
\* marked for retry, and the second was processed after it and acknowledged.
C35_Witness ==
    /\ calc.fn = "queue" /\ calc.batch = {1, 2}
    /\ inv[1].pc = "done" /\ inv[1].mark = "retry" /\ queue[1].state = "pending"
    /\ inv[2].pc = "done" /\ inv[2].mark = "ack" /\ queue[2].state = "acked"
    /\ inv[2].stored = "completed"

C37_StatusWriteFailureIsHarmless ==
    [][\A i \in DOMAIN queue :
          /\ (At(i, "status") /\ inv'[i] # inv[i] /\ inv'[i].pc # "killed")
                => /\ inv' = [inv EXCEPT ![i].pc = "learnTopics"]
                   /\ queue' = queue
                   /\ store' \in {store, Put(store, StatusKey(Task(i).taskId),
                                              StatusData(Task(i).taskId, "processing", 1))}
          /\ (At(i, "statusFailed") /\ inv'[i] # inv[i] /\ inv'[i].pc # "killed")
                => /\ inv' = [inv EXCEPT ![i].pc = "retry"]
                   /\ queue' = queue
                   /\ store' \in {store, Put(store, StatusKey(Task(i).taskId),
                                              StatusData(Task(i).taskId, "failed", 1))}
          /\ (At(i, "ack") /\ inv'[i] # inv[i] /\ inv'[i].pc # "killed")
                => inv[i].stored = "completed" /\ Len(inv[i].log) = 3
          /\ (At(i, "retry") /\ inv'[i] # inv[i] /\ inv'[i].pc # "killed")
                => inv[i].stored # "completed"]_vars

\* C37 case: the put of the processing status threw in the first delivery, so that no
\* status record exists; the stages ran all the same, the completed result record was
\* written and the message was acknowledged.
C37_Witness ==
    \E i \in DOMAIN queue :
        /\ queue[i].state = "acked" /\ queue[i].attempts = 1 /\ inv[i].mark = "ack"
        /\ deleted[Task(i).taskId] = "no" /\ del = IdleDel
        /\ store[StatusKey(Task(i).taskId)] = Absent
        /\ Len(inv[i].log) = 3
        /\ store[ResultKey(Task(i).taskId)]
              = ResultData(Task(i), Comments(i), MarkdownContent(i))

\* C38: a DELETE that answers 404 because the result record is absent changes neither
\* the store nor the queue: the status record of the task stays, and its delivery,
\* pending or in flight, goes on where it was.
C38_Delete404ChangesNothing ==
    [][(resp'.op = "delete" /\ resp'.code = 404)
          => /\ store[ResultKey(resp'.body.taskId)] = Absent
             /\ store' = store
             /\ queue' = queue
             /\ inv' = inv
             /\ del' = IdleDel]_vars

\* C38 case: a DELETE of a task that is being processed has answered 404; the status
\* record of the task is in the store and the delivery is in flight, before its
\* result write.
C38_Witness ==
    /\ resp.op = "delete" /\ resp.code = 404
    /\ \E i \in DOMAIN queue :
          /\ resp.body.taskId = Task(i).taskId
          /\ At(i, "put")
          /\ store[StatusKey(Task(i).taskId)] = StatusData(Task(i).taskId, "processing", 1)
          /\ store[ResultKey(Task(i).taskId)] = Absent

\* C39: the API key of a task message is in no stored record and in no Poll or Delete
\* response: every result record is the record computed from the task with its key
\* blanked out, every status record is computed from the task id alone, and every
\* Poll or Delete response is computed from the store and the id of the request, so
\* that runs that differ only in the key store the same records and answer the same.
C39_ApiKeyNeverLeaves ==
    /\ \A i \in DOMAIN queue :
          LET task == Task(i)
              blanked == [task EXCEPT !.openRouterApiKey = "blanked"]
              result == store[ResultKey(task.taskId)]
              status == store[StatusKey(task.taskId)]
          IN  /\ task.openRouterApiKey \in {"qk", "ek"}
              /\ result # Absent
                    => IF result.status = "completed"
                       THEN result = ResultData(blanked, Comments(i), result.summary)
                       ELSE \E error \in Errors \cup {StorageError} :
                               result = ErrorData(task.taskId, error)
              /\ result # Absent
                    => /\ "openRouterApiKey" \notin DOMAIN result
                       /\ "apiKey" \notin DOMAIN result
                       /\ result.status = "completed" => result.model # task.openRouterApiKey
                       /\ result.status = "failed" => result.error # task.openRouterApiKey
              /\ status # Absent
                    => \E s \in {"processing", "failed"} :
                          status = StatusData(task.taskId, s, 1)
    /\ resp.op = "poll"
          => /\ resp = PollResponse(store, resp.body.taskId)
             /\ "apiKey" \notin DOMAIN resp.body
             /\ "openRouterApiKey" \notin DOMAIN resp.body
    /\ resp.op = "delete"
          => DOMAIN resp.body \in {{"success", "taskId"}, {"error", "taskId", "status"}}

\* C39 case: a task that ran with the key of the environment has completed, and a Poll
\* of it has been answered 200 with the result record, which does not hold the key.
C39_Witness ==
    /\ resp.op = "poll" /\ resp.code = 200
    /\ \E i \in DOMAIN queue :
          /\ Task(i).openRouterApiKey = "ek"
          /\ resp.body.taskId = Task(i).taskId
          /\ queue[i].state = "acked"
          /\ resp.body.model = EnvModel
          /\ DOMAIN resp.body = {"success", "taskId", "status", "completedAt", "model",
                                 "commentsProcessed", "additionalContext",
                                 "outputLanguage", "summary"}
====
